---------------------------- MODULE Spec2Model ----------------------------
(***************************************************************************)
(* A model of the safe layer of libmpv-rs (src/src/safe): the error        *)
(* taxonomy (error.rs), the tagged-value marshaller (node.rs, util.rs),    *)
(* the event decoder (event.rs) and the event polling of the handle        *)
(* (client.rs).                                                            *)
(*                                                                         *)
(* Each component has a specification of its own over the same variables: *)
(*   SpecError   MpvError::from_mpv_error applied to a status code         *)
(*   SpecNode    Node::to_mpv_node and Node::from_mpv_node                 *)
(*   SpecEvent   Event::from_mpv_event applied to one foreign record       *)
(*   SpecClient  MpvHandle::wait_event called repeatedly on one handle     *)
(***************************************************************************)
EXTENDS Integers, Sequences, FiniteSets, TLC

VARIABLES
    pc,          \* where the running call sequence stands
    status,      \* SpecError: the status code handed to from_mpv_error
    classified,  \* SpecError: what from_mpv_error returned
    owned,       \* SpecNode: the owned Node the caller built, if any
    foreign,     \* SpecNode: the foreign tagged value at hand, if any
    decoded,     \* SpecNode: what from_mpv_node returned and released
    record,      \* SpecEvent: the foreign event record handed to the decoder
    outcome,     \* SpecEvent: what from_mpv_event returned, released and read
    delivered,   \* SpecClient: what mpv_wait_event returned, call after call
    returned,    \* SpecClient: what wait_event returned, call after call
    handles,     \* SpecHandle: the MpvHandle values made so far
    engine,      \* SpecHandle: the core and the foreign calls on its pointers
    ret,         \* SpecHandle, SpecCall: what the last call did and returned
    heap,        \* SpecCall: the allocations of the call and their releases
    reads        \* SpecList: the slots a decode loop read

vars ==
    <<pc, status, classified, owned, foreign, decoded, record, outcome,
      delivered, returned, handles, engine, ret, heap, reads>>

errorVars == <<status, classified>>

nodeVars == <<owned, foreign, decoded, reads>>

eventVars == <<record, outcome>>

clientVars == <<delivered, returned>>

handleVars == <<handles, engine, ret, heap>>

(***************************************************************************)
(* Rust's Option, and the third outcome of a call: a panic (unwrap on      *)
(* None, panic!, unreachable!).                                            *)
(***************************************************************************)
None == [tag |-> "None"]

Some(x) == [tag |-> "Some", val |-> x]

Panic == [tag |-> "Panic"]

IsSome(o) == o.tag = "Some"

(***************************************************************************)
(* Bounds of the model.                                                    *)
(***************************************************************************)
\* Status codes are drawn from -MaxStatus .. MaxStatus.
MaxStatus == 25

\* An Array or a Map, owned or foreign, holds at most MaxLen entries.
MaxLen == 2

\* The longest run of wait_event calls on one handle.
MaxEvents == 2

\* The most MpvHandle values made on one core.
MaxHandles == 3

(***************************************************************************)
(* raw/consts.rs: the status codes.                                        *)
(***************************************************************************)
mpv_error_MPV_ERROR_SUCCESS == 0

mpv_error_MPV_ERROR_EVENT_QUEUE_FULL == -1

mpv_error_MPV_ERROR_NOMEM == -2

mpv_error_MPV_ERROR_UNINITIALIZED == -3

mpv_error_MPV_ERROR_INVALID_PARAMETER == -4

mpv_error_MPV_ERROR_OPTION_NOT_FOUND == -5

mpv_error_MPV_ERROR_OPTION_FORMAT == -6

mpv_error_MPV_ERROR_OPTION_ERROR == -7

mpv_error_MPV_ERROR_PROPERTY_NOT_FOUND == -8

mpv_error_MPV_ERROR_PROPERTY_FORMAT == -9

mpv_error_MPV_ERROR_PROPERTY_UNAVAILABLE == -10

mpv_error_MPV_ERROR_PROPERTY_ERROR == -11

mpv_error_MPV_ERROR_COMMAND == -12

mpv_error_MPV_ERROR_LOADING_FAILED == -13

mpv_error_MPV_ERROR_AO_INIT_FAILED == -14

mpv_error_MPV_ERROR_VO_INIT_FAILED == -15

mpv_error_MPV_ERROR_NOTHING_TO_PLAY == -16

mpv_error_MPV_ERROR_UNKNOWN_FORMAT == -17

mpv_error_MPV_ERROR_UNSUPPORTED == -18

mpv_error_MPV_ERROR_NOT_IMPLEMENTED == -19

mpv_error_MPV_ERROR_GENERIC == -20

(***************************************************************************)
(* safe/error.rs                                                           *)
(***************************************************************************)
\* enum MpvError: the variants.
MpvError ==
    { "EventQueueFull", "NoMemory", "Uninitialized", "InvalidParameter",
      "OptionNotFound", "OptionFormatUnsupported", "OptionError",
      "PropertyNotFound", "PropertyNotSupported", "PropertyUnavailable",
      "PropertyError", "CommandError", "LoadingFailed",
      "AudioOutputInitFailed", "VideoOutputInitFailed", "NothingToPlay",
      "UnknownFormat", "Unsupported", "NotImplemented", "Unspecified" }

\* A slip in the match: the LOADING_FAILED arm sits under the COMMAND code
\* twice, so -13 falls through to the default arm.
from_mpv_error_NoLoadingFailed(st) ==
    CASE st = mpv_error_MPV_ERROR_SUCCESS -> None
      [] st = mpv_error_MPV_ERROR_EVENT_QUEUE_FULL -> Some("EventQueueFull")
      [] st = mpv_error_MPV_ERROR_NOMEM -> Some("NoMemory")
      [] st = mpv_error_MPV_ERROR_UNINITIALIZED -> Some("Uninitialized")
      [] st = mpv_error_MPV_ERROR_INVALID_PARAMETER -> Some("InvalidParameter")
      [] st = mpv_error_MPV_ERROR_OPTION_NOT_FOUND -> Some("OptionNotFound")
      [] st = mpv_error_MPV_ERROR_OPTION_FORMAT -> Some("OptionFormatUnsupported")
      [] st = mpv_error_MPV_ERROR_OPTION_ERROR -> Some("OptionError")
      [] st = mpv_error_MPV_ERROR_PROPERTY_NOT_FOUND -> Some("PropertyNotFound")
      [] st = mpv_error_MPV_ERROR_PROPERTY_FORMAT -> Some("PropertyNotSupported")
      [] st = mpv_error_MPV_ERROR_PROPERTY_UNAVAILABLE -> Some("PropertyUnavailable")
      [] st = mpv_error_MPV_ERROR_PROPERTY_ERROR -> Some("PropertyError")
      [] st = mpv_error_MPV_ERROR_COMMAND -> Some("CommandError")
      [] st = mpv_error_MPV_ERROR_AO_INIT_FAILED -> Some("AudioOutputInitFailed")
      [] st = mpv_error_MPV_ERROR_VO_INIT_FAILED -> Some("VideoOutputInitFailed")
      [] st = mpv_error_MPV_ERROR_NOTHING_TO_PLAY -> Some("NothingToPlay")
      [] st = mpv_error_MPV_ERROR_UNKNOWN_FORMAT -> Some("UnknownFormat")
      [] st = mpv_error_MPV_ERROR_UNSUPPORTED -> Some("Unsupported")
      [] st = mpv_error_MPV_ERROR_NOT_IMPLEMENTED -> Some("NotImplemented")
      [] OTHER -> Some("Unspecified")

\* A slip in from_mpv_error: every status taken for no error.
from_mpv_error_AlwaysNone(st) == None

\* MpvError::from_mpv_error: a match on the status code, first arm first.
from_mpv_error(st) ==
    CASE st = mpv_error_MPV_ERROR_SUCCESS -> None
      [] st = mpv_error_MPV_ERROR_EVENT_QUEUE_FULL -> Some("EventQueueFull")
      [] st = mpv_error_MPV_ERROR_NOMEM -> Some("NoMemory")
      [] st = mpv_error_MPV_ERROR_UNINITIALIZED -> Some("Uninitialized")
      [] st = mpv_error_MPV_ERROR_INVALID_PARAMETER -> Some("InvalidParameter")
      [] st = mpv_error_MPV_ERROR_OPTION_NOT_FOUND -> Some("OptionNotFound")
      [] st = mpv_error_MPV_ERROR_OPTION_FORMAT -> Some("OptionFormatUnsupported")
      [] st = mpv_error_MPV_ERROR_OPTION_ERROR -> Some("OptionError")
      [] st = mpv_error_MPV_ERROR_PROPERTY_NOT_FOUND -> Some("PropertyNotFound")
      [] st = mpv_error_MPV_ERROR_PROPERTY_FORMAT -> Some("PropertyNotSupported")
      [] st = mpv_error_MPV_ERROR_PROPERTY_UNAVAILABLE -> Some("PropertyUnavailable")
      [] st = mpv_error_MPV_ERROR_PROPERTY_ERROR -> Some("PropertyError")
      [] st = mpv_error_MPV_ERROR_COMMAND -> Some("CommandError")
      [] st = mpv_error_MPV_ERROR_LOADING_FAILED -> Some("LoadingFailed")
      [] st = mpv_error_MPV_ERROR_AO_INIT_FAILED -> Some("AudioOutputInitFailed")
      [] st = mpv_error_MPV_ERROR_VO_INIT_FAILED -> Some("VideoOutputInitFailed")
      [] st = mpv_error_MPV_ERROR_NOTHING_TO_PLAY -> Some("NothingToPlay")
      [] st = mpv_error_MPV_ERROR_UNKNOWN_FORMAT -> Some("UnknownFormat")
      [] st = mpv_error_MPV_ERROR_UNSUPPORTED -> Some("Unsupported")
      [] st = mpv_error_MPV_ERROR_NOT_IMPLEMENTED -> Some("NotImplemented")
      [] OTHER -> Some("Unspecified")

\* MpvError::get_error_string, its match: the status code each variant is
\* turned back into before mpv_error_string is asked for the text.
get_error_string_code(e) ==
    CASE e = "EventQueueFull" -> mpv_error_MPV_ERROR_EVENT_QUEUE_FULL
      [] e = "NoMemory" -> mpv_error_MPV_ERROR_NOMEM
      [] e = "Uninitialized" -> mpv_error_MPV_ERROR_UNINITIALIZED
      [] e = "InvalidParameter" -> mpv_error_MPV_ERROR_INVALID_PARAMETER
      [] e = "OptionNotFound" -> mpv_error_MPV_ERROR_OPTION_NOT_FOUND
      [] e = "OptionFormatUnsupported" -> mpv_error_MPV_ERROR_OPTION_FORMAT
      [] e = "OptionError" -> mpv_error_MPV_ERROR_OPTION_ERROR
      [] e = "PropertyNotFound" -> mpv_error_MPV_ERROR_PROPERTY_NOT_FOUND
      [] e = "PropertyNotSupported" -> mpv_error_MPV_ERROR_PROPERTY_FORMAT
      [] e = "PropertyUnavailable" -> mpv_error_MPV_ERROR_PROPERTY_UNAVAILABLE
      [] e = "PropertyError" -> mpv_error_MPV_ERROR_PROPERTY_ERROR
      [] e = "CommandError" -> mpv_error_MPV_ERROR_COMMAND
      [] e = "LoadingFailed" -> mpv_error_MPV_ERROR_LOADING_FAILED
      [] e = "AudioOutputInitFailed" -> mpv_error_MPV_ERROR_AO_INIT_FAILED
      [] e = "VideoOutputInitFailed" -> mpv_error_MPV_ERROR_VO_INIT_FAILED
      [] e = "NothingToPlay" -> mpv_error_MPV_ERROR_NOTHING_TO_PLAY
      [] e = "UnknownFormat" -> mpv_error_MPV_ERROR_UNKNOWN_FORMAT
      [] e = "Unsupported" -> mpv_error_MPV_ERROR_UNSUPPORTED
      [] e = "NotImplemented" -> mpv_error_MPV_ERROR_NOT_IMPLEMENTED
      [] e = "Unspecified" -> mpv_error_MPV_ERROR_GENERIC

(***************************************************************************)
(* raw/consts.rs: the format tags of a foreign tagged value.               *)
(***************************************************************************)
mpv_format_MPV_FORMAT_NONE == 0

mpv_format_MPV_FORMAT_STRING == 1

mpv_format_MPV_FORMAT_OSD_STRING == 2

mpv_format_MPV_FORMAT_FLAG == 3

mpv_format_MPV_FORMAT_INT64 == 4

mpv_format_MPV_FORMAT_DOUBLE == 5

mpv_format_MPV_FORMAT_NODE == 6

mpv_format_MPV_FORMAT_NODE_ARRAY == 7

mpv_format_MPV_FORMAT_NODE_MAP == 8

mpv_format_MPV_FORMAT_BYTE_ARRAY == 9

(***************************************************************************)
(* Foreign memory.  A pointer is NULL or points at one object; a C string  *)
(* is the bytes of its buffer up to the first 0.  A foreign allocation is  *)
(* named by its place in the value it hangs from: slot i of the values of  *)
(* the list at place p is Append(p, i), key i of that list Append(p, -i).  *)
(***************************************************************************)
NULL == <<>>

Ptr(x) == <<x>>

Deref(ptr) == ptr[1]

\* strlen: the bytes of a C buffer before its terminator.
CStrBytes(mem) ==
    LET nul == CHOOSE i \in 1..Len(mem) :
                   mem[i] = 0 /\ \A j \in 1..(i - 1) : mem[j] # 0
    IN  SubSeq(mem, 1, nul - 1)

\* String::from_utf8 on the bytes the model uses: the ASCII bytes are valid
\* text, 255 is a byte no UTF-8 text holds.
Utf8Valid(bytes) == \A i \in 1..Len(bytes) : bytes[i] < 128

(***************************************************************************)
(* safe/util.rs                                                            *)
(***************************************************************************)
\* make_rust_string: CString::from_raw takes the buffer at address p over,
\* into_string validates it; the buffer is released on both paths (by the
\* String when it is dropped, by the error value when validation fails).
make_rust_string(data, p) ==
    LET bytes == CStrBytes(data)
    IN  [res   |-> IF Utf8Valid(bytes) THEN Some(bytes) ELSE None,
         freed |-> <<p>>]

\* make_rust_string_const: CStr::from_ptr borrows, to_owned copies; nothing
\* is released.
make_rust_string_const(data) ==
    LET bytes == CStrBytes(data)
    IN  IF Utf8Valid(bytes) THEN Some(bytes) ELSE None

\* make_c_string: CString::new refuses text with a 0 byte in it, into_raw
\* hands out the buffer, terminator appended.  A slip: text cut at its
\* first 0 byte instead of refused.
make_c_string_Truncates(s) ==
    Some(Append(CStrBytes(Append(s, 0)), 0))

make_c_string(s) ==
    IF \E i \in 1..Len(s) : s[i] = 0 THEN None ELSE Some(Append(s, 0))

(***************************************************************************)
(* safe/node.rs: enum Node, the owned tagged value.                        *)
(***************************************************************************)
NodeString(s) == [kind |-> "String", s |-> s]

NodeOsdString(s) == [kind |-> "OsdString", s |-> s]

NodeFlag(b) == [kind |-> "Flag", b |-> b]

NodeInt64(i) == [kind |-> "Int64", i |-> i]

NodeFloat64(f) == [kind |-> "Float64", f |-> f]

NodeArray(items) == [kind |-> "Array", items |-> items]

NodeByteArray(bytes) == [kind |-> "ByteArray", bytes |-> bytes]

NodeMap(map) == [kind |-> "Map", map |-> map]

NodeNode(inner) == [kind |-> "Node", inner |-> inner]

\* HashMap::new and HashMap::insert: a map is a function from its keys; an
\* insert under a key already present replaces the value.  A slip: the
\* insert that keeps the value already present.
HashMapNew == [k \in {} |-> None]

HashMapInsert_KeepsFirst(map, key, value) ==
    [k \in DOMAIN map \cup {key} |-> IF k \in DOMAIN map THEN map[k] ELSE value]

HashMapInsert(map, key, value) ==
    [k \in DOMAIN map \cup {key} |-> IF k = key THEN value ELSE map[k]]

\* The slots a decode loop visits, `for i in 0..num as usize` (1-based here).
\* A slip: the loop that stops one slot early.
SlotRange_StopsEarly(num) == 1..(num - 1)

\* The range of usize.  The model keeps the wrap of `as usize` but not its
\* width: UsizeTop stands for 2^64 and lies above every array length here.
UsizeTop == 1048576

\* `num as usize` for a c_int: a negative count wraps to the top of the range.
AsUsize(num) == IF num < 0 THEN UsizeTop + num ELSE num

SlotRange(num) == 1..AsUsize(num)

\* Node::from_mpv_node, the default arm `_ => None`.  A slip: a tag this
\* layer does not know read as a flag.
from_mpv_node_other_AsFlag(node) ==
    [res |-> Some(NodeFlag(node.format # mpv_format_MPV_FORMAT_NONE)),
     freed |-> <<>>]

from_mpv_node_other(node) == [res |-> None, freed |-> <<>>]

RECURSIVE from_mpv_node(_, _), from_mpv_node_array(_, _, _, _, _), from_mpv_node_map(_, _, _, _, _, _)

\* Node::from_mpv_node, the loop of the NODE_ARRAY arm from slot i on: arr
\* and freed are what the earlier slots left.
from_mpv_node_array(values, num, i, arr, p) ==
    IF i \notin SlotRange(num)
    THEN arr
    ELSE LET r == from_mpv_node(values[i], Append(p, i))
         IN  from_mpv_node_array(
                 values, num, i + 1,
                 [arr   |-> IF IsSome(r.res) THEN Append(arr.arr, r.res.val)
                                            ELSE arr.arr,
                  freed |-> arr.freed \o r.freed],
                 p)

\* Node::from_mpv_node, the loop of the NODE_MAP arm from slot i on.
from_mpv_node_map(values, keys, num, i, acc, p) ==
    IF i \notin SlotRange(num)
    THEN acc
    ELSE LET r == from_mpv_node(values[i], Append(p, i))
         IN  IF ~IsSome(r.res)   \* let Some(node) = ... else { continue }
             THEN from_mpv_node_map(
                      values, keys, num, i + 1,
                      [map |-> acc.map, freed |-> acc.freed \o r.freed], p)
             ELSE LET key == make_rust_string(Deref(keys)[i], Append(p, 0 - i))
                  IN  from_mpv_node_map(
                          values, keys, num, i + 1,
                          [map   |-> IF IsSome(key.res)
                                     THEN HashMapInsert(acc.map, key.res.val,
                                                        r.res.val)
                                     ELSE acc.map,
                           freed |-> (acc.freed \o r.freed) \o key.freed],
                          p)

\* Node::from_mpv_node on the foreign value node held at place p: the
\* Option<Node> it returns, and the foreign buffers it released or took
\* over (a byte buffer becomes the Vec of the Node), in the order it did.
from_mpv_node(node, p) ==
    LET format == node.format
    IN  CASE format = mpv_format_MPV_FORMAT_STRING ->
                 LET data == make_rust_string(node.u, p)
                 IN  [res   |-> IF IsSome(data.res)
                                THEN Some(NodeString(data.res.val)) ELSE None,
                      freed |-> data.freed]
          [] format = mpv_format_MPV_FORMAT_OSD_STRING ->
                 LET data == make_rust_string(node.u, p)
                 IN  [res   |-> IF IsSome(data.res)
                                THEN Some(NodeOsdString(data.res.val)) ELSE None,
                      freed |-> data.freed]
          [] format = mpv_format_MPV_FORMAT_FLAG ->
                 [res |-> Some(NodeFlag(node.u # 0)), freed |-> <<>>]
          [] format = mpv_format_MPV_FORMAT_INT64 ->
                 [res |-> Some(NodeInt64(node.u)), freed |-> <<>>]
          [] format = mpv_format_MPV_FORMAT_DOUBLE ->
                 [res |-> Some(NodeFloat64(node.u)), freed |-> <<>>]
          [] format = mpv_format_MPV_FORMAT_BYTE_ARRAY ->
                 IF node.u = NULL
                 THEN [res |-> None, freed |-> <<>>]
                 ELSE LET ba == Deref(node.u)
                      IN  [res   |-> Some(NodeByteArray(
                                              SubSeq(ba.data, 1, ba.size))),
                           freed |-> <<p>>]
          [] format = mpv_format_MPV_FORMAT_NODE_ARRAY ->
                 IF node.u = NULL
                 THEN [res |-> None, freed |-> <<>>]
                 ELSE LET list == Deref(node.u)
                          arr  == IF list.values # NULL
                                  THEN from_mpv_node_array(
                                           Deref(list.values), list.num, 1,
                                           [arr |-> <<>>, freed |-> <<>>], p)
                                  ELSE [arr |-> <<>>, freed |-> <<>>]
                      IN  [res |-> Some(NodeArray(arr.arr)), freed |-> arr.freed]
          [] format = mpv_format_MPV_FORMAT_NODE_MAP ->
                 IF node.u = NULL
                 THEN [res |-> None, freed |-> <<>>]
                 ELSE LET list == Deref(node.u)
                          map  == IF list.values # NULL
                                  THEN from_mpv_node_map(
                                           Deref(list.values), list.keys,
                                           list.num, 1,
                                           [map |-> HashMapNew, freed |-> <<>>],
                                           p)
                                  ELSE [map |-> HashMapNew, freed |-> <<>>]
                      IN  [res |-> Some(NodeMap(map.map)), freed |-> map.freed]
          [] OTHER -> from_mpv_node_other(node)

RECURSIVE to_mpv_node(_, _), to_mpv_node_array(_, _, _, _), to_mpv_node_map(_, _, _, _, _)

\* Node::to_mpv_node, the loop of the Array arm from element i on: data is
\* what the earlier elements pushed.  A child that panics ends the call.
to_mpv_node_array(vec, i, data, order) ==
    IF i > Len(vec)
    THEN Some(data)
    ELSE LET n == to_mpv_node(vec[i], order)
         IN  IF n.tag = "Panic"
             THEN Panic
             ELSE to_mpv_node_array(
                      vec, i + 1,
                      IF IsSome(n) THEN Append(data, n.val) ELSE data, order)

\* Node::to_mpv_node, the loop of the Map arm: iter lists the keys in the
\* order the HashMap hands them out; acc holds the data and keys pushed so
\* far.  make_c_string(key).unwrap() panics on a key with a 0 byte.
to_mpv_node_map(map, iter, i, acc, order) ==
    IF i > Len(iter)
    THEN Some(acc)
    ELSE LET n == to_mpv_node(map[iter[i]], order)
         IN  IF n.tag = "Panic"
             THEN Panic
             ELSE IF ~IsSome(n)
             THEN to_mpv_node_map(map, iter, i + 1, acc, order)
             ELSE LET key == make_c_string(iter[i])
                  IN  IF ~IsSome(key)
                      THEN Panic
                      ELSE to_mpv_node_map(
                               map, iter, i + 1,
                               [data |-> Append(acc.data, n.val),
                                keys |-> Append(acc.keys, key.val)],
                               order)

\* The order a HashMap is iterated in is not fixed: order ranks every key,
\* and a map hands out its own keys in that rank.
HashMapIter(map, order) ==
    LET Has(k) == k \in DOMAIN map
    IN  SelectSeq(order, Has)

\* Node::to_mpv_node: Some(foreign value), None, or a panic.  The value
\* starts as a FLAG holding 0; each arm fills in its union member and tag.
to_mpv_node(self, order) ==
    CASE self.kind = "String" ->
             LET data == make_c_string(self.s)
             IN  IF ~IsSome(data)
                 THEN None
                 ELSE Some([format |-> mpv_format_MPV_FORMAT_STRING,
                            u |-> data.val])
      [] self.kind = "OsdString" ->
             LET data == make_c_string(self.s)
             IN  IF ~IsSome(data)
                 THEN None
                 ELSE Some([format |-> mpv_format_MPV_FORMAT_OSD_STRING,
                            u |-> data.val])
      [] self.kind = "Flag" ->
             Some([format |-> mpv_format_MPV_FORMAT_FLAG,
                   u |-> IF self.b THEN 1 ELSE 0])
      [] self.kind = "Int64" ->
             Some([format |-> mpv_format_MPV_FORMAT_INT64, u |-> self.i])
      [] self.kind = "Float64" ->
             Some([format |-> mpv_format_MPV_FORMAT_DOUBLE, u |-> self.f])
      [] self.kind = "Array" ->
             LET data == to_mpv_node_array(self.items, 1, <<>>, order)
             IN  IF data.tag = "Panic"
                 THEN Panic
                 ELSE Some([format |-> mpv_format_MPV_FORMAT_NODE_ARRAY,
                            u |-> Ptr([num    |-> Len(data.val),
                                       values |-> Ptr(data.val),
                                       keys   |-> NULL])])
      [] self.kind = "ByteArray" ->
             Some([format |-> mpv_format_MPV_FORMAT_BYTE_ARRAY,
                   u |-> Ptr([data |-> self.bytes, size |-> Len(self.bytes)])])
      [] self.kind = "Map" ->
             LET acc == to_mpv_node_map(self.map, HashMapIter(self.map, order),
                                        1, [data |-> <<>>, keys |-> <<>>], order)
             IN  IF acc.tag = "Panic"
                 THEN Panic
                 ELSE Some([format |-> mpv_format_MPV_FORMAT_NODE_MAP,
                            u |-> Ptr([num    |-> Len(acc.val.data),
                                       values |-> Ptr(acc.val.data),
                                       keys   |-> Ptr(acc.val.keys)])])
      [] self.kind = "Node" -> Panic   \* unreachable!()

\* raw/types.rs, mpv_node and mpv_node_list: the places of the strings and
\* byte buffers that hang from the foreign value node held at place p.
RECURSIVE ForeignBuffers(_, _)
ForeignBuffers(node, p) ==
    CASE node.format \in {mpv_format_MPV_FORMAT_STRING,
                          mpv_format_MPV_FORMAT_OSD_STRING} -> {p}
      [] node.format = mpv_format_MPV_FORMAT_BYTE_ARRAY ->
             IF node.u = NULL THEN {} ELSE {p}
      [] node.format \in {mpv_format_MPV_FORMAT_NODE_ARRAY,
                          mpv_format_MPV_FORMAT_NODE_MAP} ->
             IF node.u = NULL \/ Deref(node.u).values = NULL
             THEN {}
             ELSE LET list == Deref(node.u)
                  IN  UNION { ForeignBuffers(Deref(list.values)[i], Append(p, i)) :
                              i \in 1..list.num }
                      \cup (IF node.format = mpv_format_MPV_FORMAT_NODE_MAP
                               /\ list.keys # NULL
                            THEN { Append(p, 0 - i) : i \in 1..list.num }
                            ELSE {})
      [] OTHER -> {}

(***************************************************************************)
(* raw/consts.rs: event kinds, log levels, end-file reasons.               *)
(***************************************************************************)
mpv_event_id_MPV_EVENT_NONE == 0

mpv_event_id_MPV_EVENT_SHUTDOWN == 1

mpv_event_id_MPV_EVENT_LOG_MESSAGE == 2

mpv_event_id_MPV_EVENT_GET_PROPERTY_REPLY == 3

mpv_event_id_MPV_EVENT_SET_PROPERTY_REPLY == 4

mpv_event_id_MPV_EVENT_COMMAND_REPLY == 5

mpv_event_id_MPV_EVENT_START_FILE == 6

mpv_event_id_MPV_EVENT_END_FILE == 7

mpv_event_id_MPV_EVENT_FILE_LOADED == 8

mpv_event_id_MPV_EVENT_IDLE == 11

mpv_event_id_MPV_EVENT_TICK == 14

mpv_event_id_MPV_EVENT_CLIENT_MESSAGE == 16

mpv_event_id_MPV_EVENT_VIDEO_RECONFIG == 17

mpv_event_id_MPV_EVENT_AUDIO_RECONFIG == 18

mpv_event_id_MPV_EVENT_SEEK == 20

mpv_event_id_MPV_EVENT_PLAYBACK_RESTART == 21

mpv_event_id_MPV_EVENT_PROPERTY_CHANGE == 22

mpv_event_id_MPV_EVENT_QUEUE_OVERFLOW == 24

mpv_event_id_MPV_EVENT_HOOK == 25

mpv_log_level_MPV_LOG_LEVEL_NONE == 0

mpv_log_level_MPV_LOG_LEVEL_FATAL == 10

mpv_log_level_MPV_LOG_LEVEL_ERROR == 20

mpv_log_level_MPV_LOG_LEVEL_WARN == 30

mpv_log_level_MPV_LOG_LEVEL_INFO == 40

mpv_log_level_MPV_LOG_LEVEL_V == 50

mpv_log_level_MPV_LOG_LEVEL_DEBUG == 60

mpv_log_level_MPV_LOG_LEVEL_TRACE == 70

mpv_end_file_reason_MPV_END_FILE_REASON_EOF == 0

mpv_end_file_reason_MPV_END_FILE_REASON_STOP == 2

mpv_end_file_reason_MPV_END_FILE_REASON_QUIT == 3

mpv_end_file_reason_MPV_END_FILE_REASON_ERROR == 4

mpv_end_file_reason_MPV_END_FILE_REASON_REDIRECT == 5

(***************************************************************************)
(* safe/node.rs: struct Property.                                          *)
(***************************************************************************)
\* from_mpv_property, had it answered an announced format NONE with no
\* Property at all.
from_mpv_property_NoneWhenUnavailable(property, p) ==
    LET name == make_rust_string_const(property.name)
    IN  IF ~IsSome(name) \/ property.format = mpv_format_MPV_FORMAT_NONE
        THEN [res |-> None, freed |-> <<>>]
        ELSE IF property.data = NULL
        THEN [res |-> Some([name |-> name.val, data |-> None]), freed |-> <<>>]
        ELSE LET n == from_mpv_node(
                          [format |-> property.format, u |-> Deref(property.data).u],
                          Append(p, "data"))
             IN  [res |-> Some([name |-> name.val, data |-> n.res]),
                  freed |-> n.freed]

\* Property::from_mpv_property on the mpv_event_property found at place p:
\* the Option<Property>, and the buffers the decode of its data released.
\* The cell data points at is read as a value of property.format.
from_mpv_property(property, p) ==
    LET name == make_rust_string_const(property.name)
    IN  IF ~IsSome(name)
        THEN [res |-> None, freed |-> <<>>]
        ELSE IF property.data = NULL
        THEN [res |-> Some([name |-> name.val, data |-> None]), freed |-> <<>>]
        ELSE LET n == from_mpv_node(
                          [format |-> property.format, u |-> Deref(property.data).u],
                          Append(p, "data"))
             IN  [res |-> Some([name |-> name.val, data |-> n.res]),
                  freed |-> n.freed]

(***************************************************************************)
(* safe/event.rs                                                           *)
(***************************************************************************)
\* Rust's Result.
Ok(x) == [tag |-> "Ok", val |-> x]

Err(e) == [tag |-> "Err", err |-> e]

\* A slip in from_mpv_end_file_reason: the missing error code of reason
\* ERROR papered over, `error.unwrap_or(MpvError::Unspecified)`.
from_mpv_end_file_reason_UnwrapOr(level, error) ==
    CASE level = mpv_end_file_reason_MPV_END_FILE_REASON_EOF ->
             Some([reason |-> "EOF"])
      [] level = mpv_end_file_reason_MPV_END_FILE_REASON_STOP ->
             Some([reason |-> "Stop"])
      [] level = mpv_end_file_reason_MPV_END_FILE_REASON_QUIT ->
             Some([reason |-> "Quit"])
      [] level = mpv_end_file_reason_MPV_END_FILE_REASON_ERROR ->
             Some([reason |-> "Error",
                   err |-> IF IsSome(error) THEN error.val ELSE "Unspecified"])
      [] level = mpv_end_file_reason_MPV_END_FILE_REASON_REDIRECT ->
             Some([reason |-> "Redirect"])
      [] OTHER -> None

\* EndFileReason::from_mpv_end_file_reason: Some(reason), None for a reason
\* that is not known, a panic when error.unwrap() finds no error.
from_mpv_end_file_reason(level, error) ==
    CASE level = mpv_end_file_reason_MPV_END_FILE_REASON_EOF ->
             Some([reason |-> "EOF"])
      [] level = mpv_end_file_reason_MPV_END_FILE_REASON_STOP ->
             Some([reason |-> "Stop"])
      [] level = mpv_end_file_reason_MPV_END_FILE_REASON_QUIT ->
             Some([reason |-> "Quit"])
      [] level = mpv_end_file_reason_MPV_END_FILE_REASON_ERROR ->
             IF IsSome(error)
             THEN Some([reason |-> "Error", err |-> error.val])
             ELSE Panic
      [] level = mpv_end_file_reason_MPV_END_FILE_REASON_REDIRECT ->
             Some([reason |-> "Redirect"])
      [] OTHER -> None

\* LogLevel::from_mpv_log_level.
from_mpv_log_level(level) ==
    CASE level = mpv_log_level_MPV_LOG_LEVEL_NONE -> Some("None")
      [] level = mpv_log_level_MPV_LOG_LEVEL_FATAL -> Some("Fatal")
      [] level = mpv_log_level_MPV_LOG_LEVEL_ERROR -> Some("Error")
      [] level = mpv_log_level_MPV_LOG_LEVEL_WARN -> Some("Warn")
      [] level = mpv_log_level_MPV_LOG_LEVEL_INFO -> Some("Info")
      [] level = mpv_log_level_MPV_LOG_LEVEL_V -> Some("Noise")
      [] level = mpv_log_level_MPV_LOG_LEVEL_DEBUG -> Some("Debug")
      [] level = mpv_log_level_MPV_LOG_LEVEL_TRACE -> Some("Trace")
      [] OTHER -> None

\* The place of the payload an event record points at.
PayloadPlace == <<"data">>

\* What one arm of the match in from_mpv_event leaves behind: its value
\* (Some(Event), None, or a panic), the places it released, and whether it
\* read the payload.
Arm(res, freed, deref) == [res |-> res, freed |-> freed, deref |-> deref]

\* The arm of a kind that carries no payload.
from_mpv_event_plain(kind) == Arm(Some([kind |-> kind]), <<>>, FALSE)

\* Event::from_mpv_event, the MPV_EVENT_LOG_MESSAGE arm.
from_mpv_event_log_message(data) ==
    IF data = NULL
    THEN Arm(Panic, <<>>, FALSE)
    ELSE LET msg       == Deref(data)
             prefix    == make_rust_string_const(msg.prefix)
             level     == make_rust_string_const(msg.level)
             text      == make_rust_string_const(msg.text)
             log_level == from_mpv_log_level(msg.log_level)
         IN  IF IsSome(prefix) /\ IsSome(level) /\ IsSome(text) /\ IsSome(log_level)
             THEN Arm(Some([kind |-> "LogMessage", prefix |-> prefix.val,
                            level |-> level.val, text |-> text.val,
                            log_level |-> log_level.val]),
                      <<>>, TRUE)
             ELSE Arm(Panic, <<>>, TRUE)   \* one of the four unwrap()s

\* A slip in the property arms: the null check made before the status is
\* looked at, as the arms of the other payload kinds make it.
from_mpv_event_property_NullFirst(kind, error, reply_userdata, data) ==
    LET classified_error == from_mpv_error(error)
    IN  IF data = NULL
        THEN Arm(Panic, <<>>, FALSE)
        ELSE IF IsSome(classified_error)
        THEN Arm(Some([kind |-> kind, result |-> Err(classified_error.val),
                       reply_userdata |-> reply_userdata]),
                 <<>>, FALSE)
        ELSE LET property == from_mpv_property(Deref(data), PayloadPlace)
             IN  Arm(Some([kind |-> kind, result |-> Ok(property.res),
                           reply_userdata |-> reply_userdata]),
                     property.freed, TRUE)

\* Event::from_mpv_event, the arms of GET_PROPERTY_REPLY, SET_PROPERTY_REPLY
\* and PROPERTY_CHANGE, which differ in the variant they build: the status
\* is classified first, the payload is checked and read only when it shows
\* no error.
from_mpv_event_property(kind, error, reply_userdata, data) ==
    LET classified_error == from_mpv_error(error)
    IN  IF IsSome(classified_error)
        THEN Arm(Some([kind |-> kind, result |-> Err(classified_error.val),
                       reply_userdata |-> reply_userdata]),
                 <<>>, FALSE)
        ELSE IF data = NULL
        THEN Arm(Panic, <<>>, FALSE)
        ELSE LET property == from_mpv_property(Deref(data), PayloadPlace)
             IN  Arm(Some([kind |-> kind, result |-> Ok(property.res),
                           reply_userdata |-> reply_userdata]),
                     property.freed, TRUE)

\* Event::from_mpv_event, the MPV_EVENT_COMMAND_REPLY arm.
from_mpv_event_command_reply(error, reply_userdata, data) ==
    LET classified_error == from_mpv_error(error)
    IN  IF IsSome(classified_error)
        THEN Arm(Some([kind |-> "CommandReply",
                       result |-> Err(classified_error.val),
                       reply_userdata |-> reply_userdata]),
                 <<>>, FALSE)
        ELSE IF data = NULL
        THEN Arm(Panic, <<>>, FALSE)
        ELSE LET n == from_mpv_node(Deref(data), Append(PayloadPlace, "result"))
             IN  Arm(Some([kind |-> "CommandReply", result |-> Ok(n.res),
                           reply_userdata |-> reply_userdata]),
                     n.freed, TRUE)

\* Event::from_mpv_event, the MPV_EVENT_START_FILE arm.
from_mpv_event_start_file(data) ==
    IF data = NULL
    THEN Arm(Panic, <<>>, FALSE)
    ELSE Arm(Some([kind |-> "StartFile",
                   playlist_entry_id |-> Deref(data).playlist_entry_id]),
             <<>>, TRUE)

\* A slip in the END_FILE arm: the reason built from the status of the
\* event record instead of the error field of the payload.
EndFileErrorCode_OfRecord(event_error, payload) == event_error

\* The code the END_FILE arm classifies: destructuring the payload rebinds
\* `error`, so it is the payload's field, not the status of the record.
EndFileErrorCode(event_error, payload) == payload.error

\* Event::from_mpv_event, the MPV_EVENT_END_FILE arm.
from_mpv_event_end_file(event_error, data) ==
    IF data = NULL
    THEN Arm(Panic, <<>>, FALSE)
    ELSE LET payload == Deref(data)
             reason  == from_mpv_end_file_reason(
                            payload.reason,
                            from_mpv_error(EndFileErrorCode(event_error, payload)))
         IN  IF IsSome(reason)
             THEN Arm(Some([kind |-> "EndFile", reason |-> reason.val,
                            playlist_entry_id |-> payload.playlist_entry_id,
                            playlist_insert_id |-> payload.playlist_insert_id,
                            playlist_insert_num_entries |->
                                payload.playlist_insert_num_entries]),
                      <<>>, TRUE)
             ELSE Arm(Panic, <<>>, TRUE)   \* error.unwrap(), or .unwrap() of None

\* Event::from_mpv_event, the MPV_EVENT_CLIENT_MESSAGE arm: every string is
\* copied, an invalid one panics in the loop; then the array is released.
from_mpv_event_client_message(data) ==
    IF data = NULL
    THEN Arm(Panic, <<>>, FALSE)
    ELSE LET msg  == Deref(data)
             args == [i \in 1..msg.num_args |->
                          make_rust_string_const(Deref(msg.args)[i])]
         IN  IF \E i \in 1..msg.num_args : ~IsSome(args[i])
             THEN Arm(Panic, <<>>, TRUE)
             ELSE Arm(Some([kind |-> "ClientMessage",
                            args |-> [i \in 1..msg.num_args |-> args[i].val]]),
                      <<Append(PayloadPlace, "args")>>, TRUE)

\* A slip in the HOOK arm: the hook's id, the other u64 at hand, stored as
\* the correlation id.
from_mpv_event_hook_IdAsUserdata(reply_userdata, data) ==
    IF data = NULL
    THEN Arm(Panic, <<>>, FALSE)
    ELSE LET name == make_rust_string_const(Deref(data).name)
         IN  IF IsSome(name)
             THEN Arm(Some([kind |-> "Hook", name |-> name.val,
                            id |-> Deref(data).id,
                            reply_userdata |-> Deref(data).id]),
                      <<>>, TRUE)
             ELSE Arm(Panic, <<>>, TRUE)

\* Event::from_mpv_event, the MPV_EVENT_HOOK arm.
from_mpv_event_hook(reply_userdata, data) ==
    IF data = NULL
    THEN Arm(Panic, <<>>, FALSE)
    ELSE LET name == make_rust_string_const(Deref(data).name)
         IN  IF IsSome(name)
             THEN Arm(Some([kind |-> "Hook", name |-> name.val,
                            id |-> Deref(data).id,
                            reply_userdata |-> reply_userdata]),
                      <<>>, TRUE)
             ELSE Arm(Panic, <<>>, TRUE)

\* A slip in the default arm: a kind this layer does not know decoded as
\* the kind before it in the table.
from_mpv_event_other_AsTick(event_id) == from_mpv_event_plain("Tick")

\* A slip in the default arm: the kinds without an arm taken for impossible,
\* `_ => unreachable!()`.
from_mpv_event_other_Unreachable(event_id) == Arm(Panic, <<>>, FALSE)

\* Event::from_mpv_event, the default arm `_ => None`.
from_mpv_event_other(event_id) == Arm(None, <<>>, FALSE)

\* Event::from_mpv_event: the match on event_id, then mpv_free(data) when
\* data is not null.  A panic in an arm unwinds past the mpv_free.
from_mpv_event(event) ==
    LET event_id       == event.event_id
        error          == event.error
        reply_userdata == event.reply_userdata
        data           == event.data
        arm ==
          CASE event_id = mpv_event_id_MPV_EVENT_SHUTDOWN ->
                   from_mpv_event_plain("Shutdown")
            [] event_id = mpv_event_id_MPV_EVENT_LOG_MESSAGE ->
                   from_mpv_event_log_message(data)
            [] event_id = mpv_event_id_MPV_EVENT_GET_PROPERTY_REPLY ->
                   from_mpv_event_property("GetPropertyReply", error,
                                           reply_userdata, data)
            [] event_id = mpv_event_id_MPV_EVENT_SET_PROPERTY_REPLY ->
                   from_mpv_event_property("SetPropertyReply", error,
                                           reply_userdata, data)
            [] event_id = mpv_event_id_MPV_EVENT_COMMAND_REPLY ->
                   from_mpv_event_command_reply(error, reply_userdata, data)
            [] event_id = mpv_event_id_MPV_EVENT_START_FILE ->
                   from_mpv_event_start_file(data)
            [] event_id = mpv_event_id_MPV_EVENT_END_FILE ->
                   from_mpv_event_end_file(error, data)
            [] event_id = mpv_event_id_MPV_EVENT_FILE_LOADED ->
                   from_mpv_event_plain("FileLoaded")
            [] event_id = mpv_event_id_MPV_EVENT_IDLE ->
                   from_mpv_event_plain("Idle")
            [] event_id = mpv_event_id_MPV_EVENT_TICK ->
                   from_mpv_event_plain("Tick")
            [] event_id = mpv_event_id_MPV_EVENT_CLIENT_MESSAGE ->
                   from_mpv_event_client_message(data)
            [] event_id = mpv_event_id_MPV_EVENT_VIDEO_RECONFIG ->
                   from_mpv_event_plain("VideoReconfig")
            [] event_id = mpv_event_id_MPV_EVENT_AUDIO_RECONFIG ->
                   from_mpv_event_plain("AudioReconfig")
            [] event_id = mpv_event_id_MPV_EVENT_SEEK ->
                   from_mpv_event_plain("Seek")
            [] event_id = mpv_event_id_MPV_EVENT_PLAYBACK_RESTART ->
                   from_mpv_event_plain("PlaybackRestart")
            [] event_id = mpv_event_id_MPV_EVENT_PROPERTY_CHANGE ->
                   from_mpv_event_property("PropertyChange", error,
                                           reply_userdata, data)
            [] event_id = mpv_event_id_MPV_EVENT_QUEUE_OVERFLOW ->
                   from_mpv_event_plain("QueueOverflow")
            [] event_id = mpv_event_id_MPV_EVENT_HOOK ->
                   from_mpv_event_hook(reply_userdata, data)
            [] OTHER -> from_mpv_event_other(event_id)
    IN  IF arm.res.tag = "Panic"
        THEN arm
        ELSE Arm(arm.res,
                 IF data # NULL THEN Append(arm.freed, PayloadPlace) ELSE arm.freed,
                 arm.deref)

(***************************************************************************)
(* SpecError: a caller hands one status code to from_mpv_error.            *)
(***************************************************************************)
StatusCodes == (0 - MaxStatus) .. MaxStatus

IdleError == status = 0 /\ classified = None

\* No slot read.
NoReads == [values |-> 0, keys |-> {}, past_end |-> FALSE, null_key |-> FALSE]

IdleNode ==
    /\ owned = None
    /\ foreign = None
    /\ decoded = [res |-> None, freed |-> <<>>]
    /\ reads = NoReads

\* An event record of kind NONE: no event.
NoEvent ==
    [event_id |-> mpv_event_id_MPV_EVENT_NONE, error |-> 0,
     reply_userdata |-> 0, data |-> NULL]

IdleEvent == record = NoEvent /\ outcome = Arm(None, <<>>, FALSE)

IdleClient == delivered = <<>> /\ returned = <<>>

\* No handle made, no core, no call made, nothing allocated.
NoEngine == [core |-> "None", clients |-> <<>>]

NoCall == [op |-> "none"]

\* The allocations made so far and the releases made so far, in order;
\* whether a read went past the end of an array; the places of the nodes
\* handed to mpv_free_node_contents.
EmptyHeap ==
    [allocated |-> {}, released |-> <<>>, wild |-> FALSE, engine_freed |-> {}]

IdleHandle ==
    /\ handles = <<>>
    /\ engine = NoEngine
    /\ ret = NoCall
    /\ heap = EmptyHeap

InitError ==
    /\ pc = "status"
    /\ status \in StatusCodes
    /\ classified = None
    /\ IdleNode
    /\ IdleEvent
    /\ IdleClient
    /\ IdleHandle

\* The call MpvError::from_mpv_error(status).
Classify ==
    /\ pc = "status"
    /\ classified' = from_mpv_error(status)
    /\ pc' = "classified"
    /\ UNCHANGED <<status, nodeVars, eventVars, clientVars, handleVars>>

NextError == Classify

SpecError == InitError /\ [][NextError]_vars

(***************************************************************************)
(* The claims of the error taxonomy.                                       *)
(***************************************************************************)
\* The recognized negative codes, -1 .. -19.
Recognized == mpv_error_MPV_ERROR_NOT_IMPLEMENTED .. mpv_error_MPV_ERROR_EVENT_QUEUE_FULL

\* C1: for each recognized negative status code from_mpv_error returns the
\* one variant that stands for that code (the variant get_error_string turns
\* back into the same code, so no two recognized codes share a variant), and
\* it returns Unspecified for every other negative code, -20 included.
C1_ClassifyNegative ==
    (pc = "classified" /\ status < 0) =>
        /\ IsSome(classified)
        /\ classified.val \in MpvError
        /\ status \in Recognized =>
              /\ get_error_string_code(classified.val) = status
              /\ classified.val # "Unspecified"
        /\ status \notin Recognized => classified.val = "Unspecified"

\* C1's case: the load failure code has been classified, and so has a code
\* below the recognized range.
C1_Witness ==
    /\ pc = "classified"
    /\ status = mpv_error_MPV_ERROR_LOADING_FAILED
    /\ classified = Some("LoadingFailed")

\* C2: every status code >= 0, the strictly positive ones included, is
\* classified as no error.
C2_NonNegativeIsNone ==
    (pc = "classified" /\ status >= 0) => classified = None

(***************************************************************************)
(* SpecNode: a caller builds a Node and encodes it, or the engine hands    *)
(* out a foreign value; the foreign value at hand is then decoded.         *)
(***************************************************************************)
SeqsUpTo(S, n) == UNION { [1..k -> S] : k \in 0..n }

MapsUpTo(K, S, n) ==
    UNION { [D -> S] : D \in { D \in SUBSET K : Cardinality(D) <= n } }

\* The scalar Nodes of a caller: text with and without a 0 byte in it, both
\* flags, an integer, a double (named by its bits), byte buffers, a boxed
\* Node.
OwnedLeaves ==
    { NodeString(<<>>), NodeString(<<97, 98>>), NodeString(<<97, 0, 98>>),
      NodeOsdString(<<97>>), NodeFlag(TRUE), NodeFlag(FALSE), NodeInt64(-1),
      NodeFloat64("NaN"), NodeByteArray(<<>>), NodeByteArray(<<0, 255>>),
      NodeNode(NodeFlag(TRUE)) }

\* The keys of a caller's maps; the last holds a 0 byte.
OwnedKeys == { <<97>>, <<98>>, <<97, 0>> }

OwnedCollections(S) ==
    { NodeArray(s) : s \in SeqsUpTo(S, MaxLen) }
        \cup { NodeMap(m) : m \in MapsUpTo(OwnedKeys, S, MaxLen) }

\* One more level of nesting around the Nodes of S.
OwnedNest(S) ==
    { NodeArray(<<NodeFlag(TRUE), n>>) : n \in S }
        \cup { NodeMap([k \in {<<98>>} |-> n]) : n \in S }

OwnedNodes ==
    LET flat == OwnedCollections(OwnedLeaves)
    IN  OwnedLeaves \cup flat \cup OwnedNest(flat) \cup OwnedNest(OwnedNest(flat))

\* Every order a HashMap may hand the keys out in.
KeyOrders ==
    { o \in [1..Cardinality(OwnedKeys) -> OwnedKeys] :
          \A k \in OwnedKeys : \E i \in DOMAIN o : o[i] = k }

ForeignNode(format, u) == [format |-> format, u |-> u]

ForeignList(format, num, values, keys) ==
    ForeignNode(format, Ptr([num |-> num, values |-> values, keys |-> keys]))

\* The scalar values of the engine: valid and invalid text, flags (any
\* nonzero int is true), a null and a filled byte array, and tags this layer
\* does not decode (NONE, NODE, one past the last).
EngineLeaves ==
    { ForeignNode(mpv_format_MPV_FORMAT_STRING, <<97, 0>>),
      ForeignNode(mpv_format_MPV_FORMAT_STRING, <<255, 0>>),
      ForeignNode(mpv_format_MPV_FORMAT_OSD_STRING, <<98, 0>>),
      ForeignNode(mpv_format_MPV_FORMAT_OSD_STRING, <<98, 255, 0>>),
      ForeignNode(mpv_format_MPV_FORMAT_FLAG, 0),
      ForeignNode(mpv_format_MPV_FORMAT_FLAG, 2),
      ForeignNode(mpv_format_MPV_FORMAT_INT64, 7),
      ForeignNode(mpv_format_MPV_FORMAT_DOUBLE, "1.5"),
      ForeignNode(mpv_format_MPV_FORMAT_BYTE_ARRAY, NULL),
      ForeignNode(mpv_format_MPV_FORMAT_BYTE_ARRAY,
                  Ptr([data |-> <<1, 255>>, size |-> 2])),
      ForeignNode(mpv_format_MPV_FORMAT_NONE, 0),
      ForeignNode(mpv_format_MPV_FORMAT_NODE, 0),
      ForeignNode(mpv_format_MPV_FORMAT_BYTE_ARRAY + 1, 0) }

\* The values the engine's maps hold here.
EngineMapLeaves ==
    { ForeignNode(mpv_format_MPV_FORMAT_STRING, <<97, 0>>),
      ForeignNode(mpv_format_MPV_FORMAT_STRING, <<255, 0>>),
      ForeignNode(mpv_format_MPV_FORMAT_FLAG, 2),
      ForeignNode(mpv_format_MPV_FORMAT_BYTE_ARRAY,
                  Ptr([data |-> <<1, 255>>, size |-> 2])),
      ForeignNode(mpv_format_MPV_FORMAT_NONE, 0) }

\* The keys of the engine's maps: two valid ones and one of invalid text.
EngineKeys == { <<97, 0>>, <<98, 0>>, <<255, 0>> }

EngineCollections ==
    { ForeignNode(mpv_format_MPV_FORMAT_NODE_ARRAY, NULL),
      ForeignNode(mpv_format_MPV_FORMAT_NODE_MAP, NULL),
      ForeignList(mpv_format_MPV_FORMAT_NODE_ARRAY, 0, NULL, NULL),
      ForeignList(mpv_format_MPV_FORMAT_NODE_MAP, 0, NULL, NULL) }
        \cup { ForeignList(mpv_format_MPV_FORMAT_NODE_ARRAY, Len(vs), Ptr(vs), NULL) :
               vs \in SeqsUpTo(EngineLeaves, MaxLen) }
        \cup UNION { { ForeignList(mpv_format_MPV_FORMAT_NODE_MAP, n, Ptr(vs), Ptr(ks)) :
                       vs \in [1..n -> EngineMapLeaves], ks \in [1..n -> EngineKeys] } :
                     n \in 0..MaxLen }

EngineNest(S) ==
    { ForeignList(mpv_format_MPV_FORMAT_NODE_ARRAY, 2,
                  Ptr(<<ForeignNode(mpv_format_MPV_FORMAT_STRING, <<98, 0>>), v>>),
                  NULL) : v \in S }
        \cup { ForeignList(mpv_format_MPV_FORMAT_NODE_MAP, 1, Ptr(<<v>>), Ptr(<<k>>)) :
               v \in S, k \in {<<97, 0>>, <<255, 0>>} }

EngineNodes ==
    EngineLeaves \cup EngineCollections \cup EngineNest(EngineCollections)

InitNode ==
    /\ decoded = [res |-> None, freed |-> <<>>]
    /\ reads = NoReads
    /\ \/ /\ pc = "owned"
          /\ owned \in { Some(n) : n \in OwnedNodes }
          /\ foreign = None
       \/ /\ pc = "foreign"
          /\ owned = None
          /\ foreign \in { Some(v) : v \in EngineNodes }
    /\ IdleError
    /\ IdleEvent
    /\ IdleClient
    /\ IdleHandle

\* The caller's call Node::to_mpv_node(node).
Encode ==
    /\ pc = "owned"
    /\ \E order \in KeyOrders :
           /\ foreign' = to_mpv_node(owned.val, order)
           /\ pc' = CASE foreign'.tag = "Some" -> "foreign"
                      [] foreign'.tag = "None" -> "refused"
                      [] OTHER -> "panicked"
    /\ UNCHANGED <<owned, decoded, reads, errorVars, eventVars, clientVars, handleVars>>

\* The call Node::from_mpv_node(foreign), the foreign value held at the
\* root place <<>>.
Decode ==
    /\ pc = "foreign"
    /\ decoded' = from_mpv_node(foreign.val, <<>>)
    /\ pc' = "decoded"
    /\ UNCHANGED <<owned, foreign, reads, errorVars, eventVars, clientVars, handleVars>>

NextNode == Encode \/ Decode

SpecNode == InitNode /\ [][NextNode]_vars

(***************************************************************************)
(* The claims of the marshaller.                                           *)
(***************************************************************************)
\* A Node built only from String, Flag, Int64, Float64, Array, Map and
\* ByteArray whose strings and map keys hold no 0 byte.
RECURSIVE RoundTrippable(_)
RoundTrippable(n) ==
    CASE n.kind = "String" -> \A i \in 1..Len(n.s) : n.s[i] # 0
      [] n.kind \in {"Flag", "Int64", "Float64", "ByteArray"} -> TRUE
      [] n.kind = "Array" -> \A i \in 1..Len(n.items) : RoundTrippable(n.items[i])
      [] n.kind = "Map" ->
             \A k \in DOMAIN n.map :
                 /\ \A i \in 1..Len(k) : k[i] # 0
                 /\ RoundTrippable(n.map[k])
      [] OTHER -> FALSE

\* The depth of collections in a Node.
RECURSIVE Depth(_)
Depth(n) ==
    LET Max(S) == IF S = {} THEN 0 ELSE CHOOSE m \in S : \A x \in S : x <= m
    IN  CASE n.kind = "Array" ->
                 1 + Max({ Depth(n.items[i]) : i \in 1..Len(n.items) })
          [] n.kind = "Map" -> 1 + Max({ Depth(n.map[k]) : k \in DOMAIN n.map })
          [] OTHER -> 0

\* C3: encoding and then decoding a Node built only from String, Flag,
\* Int64, Float64, Array, Map and ByteArray, with no 0 byte in its strings
\* and keys, gives Some of an equal Node, at every nesting depth.
C3_RoundTrip ==
    (pc = "decoded" /\ IsSome(owned) /\ RoundTrippable(owned.val)) =>
        decoded.res = Some(owned.val)

\* C3's case: a Node three collections deep, with a two-entry map in it,
\* has come back from the round trip.
C3_Witness ==
    /\ pc = "decoded"
    /\ IsSome(owned)
    /\ RoundTrippable(owned.val)
    /\ Depth(owned.val) = 3
    /\ \E k \in {<<98>>} :
           /\ owned.val.kind = "Map"
           /\ owned.val.map[k].kind = "Array"
           /\ owned.val.map[k].items[2].kind = "Map"
           /\ Cardinality(DOMAIN owned.val.map[k].items[2].map) = 2
    /\ decoded.res = Some(owned.val)

\* How often place b stands in the sequence of released places.
TimesReleased(b, freed) == Cardinality({ i \in 1..Len(freed) : freed[i] = b })

\* C4: every foreign string and byte buffer that hangs from the value handed
\* to from_mpv_node is released exactly once by the decode, on every path
\* (the key of a map entry whose value failed to decode included).
C4_ReleasedExactlyOnce ==
    pc = "decoded" =>
        \A b \in ForeignBuffers(foreign.val, <<>>) :
            TimesReleased(b, decoded.freed) = 1

\* No boxed Node (Node::Node) anywhere in n.
RECURSIVE NoBoxedNode(_)
NoBoxedNode(n) ==
    CASE n.kind = "Array" -> \A i \in 1..Len(n.items) : NoBoxedNode(n.items[i])
      [] n.kind = "Map" -> \A k \in DOMAIN n.map : NoBoxedNode(n.map[k])
      [] n.kind = "Node" -> FALSE
      [] OTHER -> TRUE

\* The entries of the collection n that encode: children that to_mpv_node
\* turns into Some, under keys that make_c_string accepts.
EncodedEntries(n) ==
    IF n.kind = "Array"
    THEN Cardinality({ i \in 1..Len(n.items) :
                         \A order \in KeyOrders :
                             to_mpv_node(n.items[i], order).tag = "Some" })
    ELSE Cardinality({ k \in DOMAIN n.map :
                         /\ IsSome(make_c_string(k))
                         /\ \A order \in KeyOrders :
                                to_mpv_node(n.map[k], order).tag = "Some" })

\* C17: encoding a collection cannot fail or abort: for every Array and
\* every Map, whatever its children and keys (strings with a 0 byte
\* included), to_mpv_node returns Some(collection) whose count is the number
\* of entries that encoded.  (Stated for collections without a boxed Node,
\* whose encoding is unreachable by contract.)
C17_CollectionEncodeCannotFail ==
    (pc # "owned" /\ IsSome(owned) /\ owned.val.kind \in { "Array", "Map" }
        /\ NoBoxedNode(owned.val)) =>
        /\ foreign.tag = "Some"
        /\ Deref(foreign.val.u).num = EncodedEntries(owned.val)

\* The slots of a foreign list whose value decodes, and for a map whose key
\* decodes too, the list held at the root place.
DecodedSlots(node) ==
    LET list == Deref(node.u)
    IN  IF list.values = NULL
        THEN {}
        ELSE { i \in 1..list.num :
                 /\ IsSome(from_mpv_node(Deref(list.values)[i], <<i>>).res)
                 /\ node.format = mpv_format_MPV_FORMAT_NODE_MAP =>
                        Utf8Valid(CStrBytes(Deref(list.keys)[i])) }

\* The value slot i of the list decodes to.
DecodedValue(node, i) == from_mpv_node(Deref(Deref(node.u).values)[i], <<i>>).res.val

\* The key of slot i, as text.
DecodedKey(node, i) == CStrBytes(Deref(Deref(node.u).keys)[i])

\* The members of a set of slots in rising order.
RECURSIVE Rising(_)
Rising(S) ==
    IF S = {}
    THEN <<>>
    ELSE LET least == CHOOSE i \in S : \A j \in S : i <= j
         IN  <<least>> \o Rising(S \ { least })

\* C18: from_mpv_node on a foreign array returns Some(Array) holding exactly
\* the children that decoded, in foreign order; on a foreign map Some(Map)
\* holding exactly the entries whose value and key both decoded; never None,
\* and never more than the foreign count.
C18_DecodeSkipPolicy ==
    (pc = "decoded" /\ foreign.val.format \in { mpv_format_MPV_FORMAT_NODE_ARRAY,
                                               mpv_format_MPV_FORMAT_NODE_MAP }) =>
        /\ IsSome(decoded.res)
        /\ foreign.val.format = mpv_format_MPV_FORMAT_NODE_ARRAY =>
             LET slots == Rising(DecodedSlots(foreign.val))
             IN  /\ decoded.res.val.kind = "Array"
                 /\ decoded.res.val.items =
                        [j \in 1..Len(slots) |-> DecodedValue(foreign.val, slots[j])]
                 /\ Len(decoded.res.val.items) <= Deref(foreign.val.u).num
        /\ foreign.val.format = mpv_format_MPV_FORMAT_NODE_MAP =>
             /\ decoded.res.val.kind = "Map"
             /\ DOMAIN decoded.res.val.map =
                    { DecodedKey(foreign.val, i) : i \in DecodedSlots(foreign.val) }
             /\ \A i \in DecodedSlots(foreign.val) :
                    decoded.res.val.map[DecodedKey(foreign.val, i)] =
                        DecodedValue(foreign.val, i)
             /\ Cardinality(DOMAIN decoded.res.val.map) <= Deref(foreign.val.u).num

\* C18 as amended: a list pointer that is null gives None.  Otherwise an
\* array gives Some(Array) of the children that decoded, in foreign order,
\* and a map gives Some(Map) whose keys are the keys of the entries whose
\* value and key both decoded, each key holding the value of the last such
\* entry under it; a failing element or key never makes the collection None,
\* and the size is at most the foreign count.
C18_DecodeSkipPolicyLastWins ==
    (pc = "decoded" /\ foreign.val.format \in { mpv_format_MPV_FORMAT_NODE_ARRAY,
                                               mpv_format_MPV_FORMAT_NODE_MAP }) =>
        IF foreign.val.u = NULL
        THEN decoded.res = None
        ELSE /\ IsSome(decoded.res)
             /\ foreign.val.format = mpv_format_MPV_FORMAT_NODE_ARRAY =>
                  LET slots == Rising(DecodedSlots(foreign.val))
                  IN  /\ decoded.res.val.kind = "Array"
                      /\ decoded.res.val.items =
                             [j \in 1..Len(slots) |->
                                 DecodedValue(foreign.val, slots[j])]
                      /\ Len(decoded.res.val.items) <= Deref(foreign.val.u).num
             /\ foreign.val.format = mpv_format_MPV_FORMAT_NODE_MAP =>
                  /\ decoded.res.val.kind = "Map"
                  /\ DOMAIN decoded.res.val.map =
                         { DecodedKey(foreign.val, i) :
                           i \in DecodedSlots(foreign.val) }
                  /\ \A i \in DecodedSlots(foreign.val) :
                         (\A j \in DecodedSlots(foreign.val) :
                              DecodedKey(foreign.val, j) = DecodedKey(foreign.val, i)
                                  => j <= i) =>
                             decoded.res.val.map[DecodedKey(foreign.val, i)] =
                                 DecodedValue(foreign.val, i)
                  /\ Cardinality(DOMAIN decoded.res.val.map)
                         <= Deref(foreign.val.u).num

\* C18's case: a map of two entries under one key, both decodable, has been
\* decoded to a map holding the second.
C18_Witness ==
    /\ pc = "decoded"
    /\ foreign.val.format = mpv_format_MPV_FORMAT_NODE_MAP
    /\ foreign.val.u # NULL
    /\ DecodedSlots(foreign.val) = { 1, 2 }
    /\ DecodedKey(foreign.val, 1) = DecodedKey(foreign.val, 2)
    /\ DecodedValue(foreign.val, 1) # DecodedValue(foreign.val, 2)
    /\ decoded.res = Some(NodeMap([k \in { DecodedKey(foreign.val, 2) } |->
                                      DecodedValue(foreign.val, 2)]))

\* The format tags from_mpv_node has an arm for.
DecodedFormats ==
    { mpv_format_MPV_FORMAT_STRING, mpv_format_MPV_FORMAT_OSD_STRING,
      mpv_format_MPV_FORMAT_FLAG, mpv_format_MPV_FORMAT_INT64,
      mpv_format_MPV_FORMAT_DOUBLE, mpv_format_MPV_FORMAT_NODE_ARRAY,
      mpv_format_MPV_FORMAT_NODE_MAP, mpv_format_MPV_FORMAT_BYTE_ARRAY }

\* C19: from_mpv_node returns None, and does not abort, for every format
\* tag it has no arm for (NONE, NODE and the tags above BYTE_ARRAY
\* included), and None for BYTE_ARRAY with a null pointer.
C19_UnknownTagIsNone ==
    (pc = "decoded"
        /\ \/ foreign.val.format \notin DecodedFormats
           \/ /\ foreign.val.format = mpv_format_MPV_FORMAT_BYTE_ARRAY
              /\ foreign.val.u = NULL) =>
        /\ decoded.res = None
        /\ decoded.freed = <<>>

\* C19's case: a value tagged NODE has been decoded.
C19_Witness ==
    /\ pc = "decoded"
    /\ foreign.val.format = mpv_format_MPV_FORMAT_NODE
    /\ decoded.res = None

\* The one foreign tag of each variant that to_mpv_node encodes.
FormatOf ==
    [ String |-> mpv_format_MPV_FORMAT_STRING,
      OsdString |-> mpv_format_MPV_FORMAT_OSD_STRING,
      Flag |-> mpv_format_MPV_FORMAT_FLAG,
      Int64 |-> mpv_format_MPV_FORMAT_INT64,
      Float64 |-> mpv_format_MPV_FORMAT_DOUBLE,
      Array |-> mpv_format_MPV_FORMAT_NODE_ARRAY,
      Map |-> mpv_format_MPV_FORMAT_NODE_MAP,
      ByteArray |-> mpv_format_MPV_FORMAT_BYTE_ARRAY ]

\* C20: to_mpv_node gives every variant its one foreign tag (Flag with
\* payload 1 for true and 0 for false), and for String and OsdString
\* returns None exactly when the text holds a 0 byte.
C20_OneTagPerVariant ==
    (pc # "owned" /\ IsSome(owned)) =>
        /\ foreign.tag = "Some" =>
               foreign.val.format = FormatOf[owned.val.kind]
        /\ owned.val.kind = "Flag" =>
               /\ foreign.tag = "Some"
               /\ foreign.val.u = IF owned.val.b THEN 1 ELSE 0
        /\ owned.val.kind \in { "Int64", "Float64", "ByteArray" } =>
               foreign.tag = "Some"
        /\ owned.val.kind \in { "String", "OsdString" } =>
               /\ foreign.tag \in { "Some", "None" }
               /\ foreign.tag = "None" <=>
                      \E i \in 1..Len(owned.val.s) : owned.val.s[i] = 0
               /\ foreign.tag = "Some" => foreign.val.u = Append(owned.val.s, 0)

\* C20's case: a String with a 0 byte in it has been refused.
C20_Witness ==
    /\ pc = "refused"
    /\ owned = Some(NodeString(<<97, 0, 98>>))
    /\ foreign = None

(***************************************************************************)
(* SpecList: the engine hands out one array or map whose list header may   *)
(* be malformed (a count that is negative or larger than the arrays, a     *)
(* null values or keys pointer); Node::from_mpv_node decodes it.           *)
(***************************************************************************)
\* The values of the lists: one that decodes, one that does not.
ListLeaves ==
    { ForeignNode(mpv_format_MPV_FORMAT_FLAG, 1),
      ForeignNode(mpv_format_MPV_FORMAT_STRING, <<255, 0>>) }

ListKeys == { <<97, 0>> }

\* mpv_node_list: any count from -1 to one past the longest array, values
\* and keys null or arrays of up to MaxLen slots.
ListHeaders ==
    { [num |-> num, values |-> values, keys |-> keys] :
      num \in -1 .. (MaxLen + 1),
      values \in { NULL } \cup { Ptr(vs) : vs \in SeqsUpTo(ListLeaves, MaxLen) },
      keys \in { NULL } \cup { Ptr(ks) : ks \in SeqsUpTo(ListKeys, MaxLen) } }

ListNodes ==
    { ForeignNode(format, Ptr(list)) :
      format \in { mpv_format_MPV_FORMAT_NODE_ARRAY, mpv_format_MPV_FORMAT_NODE_MAP },
      list \in ListHeaders }

InitList ==
    /\ pc = "list"
    /\ owned = None
    /\ foreign \in { Some(v) : v \in ListNodes }
    /\ decoded = [res |-> None, freed |-> <<>>]
    /\ reads = NoReads
    /\ IdleError
    /\ IdleEvent
    /\ IdleClient
    /\ IdleHandle

\* How many slots of the values array the loop `for i in 0..num as usize`
\* reads, which it enters only `if values != null_mut()`.
ValueSlotsRead(list) == IF list.values = NULL THEN 0 ELSE AsUsize(list.num)

\* The slots of the keys array the NODE_MAP loop reads: `*keys.add(i)` for
\* every slot whose value decoded (the others `continue`), among the slots
\* the values array has.
KeySlotsRead(format, list) ==
    IF format = mpv_format_MPV_FORMAT_NODE_MAP /\ list.values # NULL
    THEN { i \in 1..Len(Deref(list.values)) :
             /\ i \in SlotRange(list.num)
             /\ IsSome(from_mpv_node(Deref(list.values)[i], <<i>>).res) }
    ELSE {}

\* Node::from_mpv_node on the list: the slots it reads, and what it returns.
\* A read past the end of an array or through a null keys pointer is
\* undefined behaviour: the call crashes or goes on with whatever it read.
DecodeList ==
    /\ pc = "list"
    /\ LET list        == Deref(foreign.val.u)
           key_slots   == KeySlotsRead(foreign.val.format, list)
           past_values == /\ list.values # NULL
                          /\ ValueSlotsRead(list) > Len(Deref(list.values))
           past_keys   == /\ list.keys # NULL
                          /\ \E i \in key_slots : i > Len(Deref(list.keys))
           null_key    == list.keys = NULL /\ key_slots # {}
       IN  /\ reads' = [values |-> ValueSlotsRead(list), keys |-> key_slots,
                        past_end |-> past_values \/ past_keys,
                        null_key |-> null_key]
           /\ IF past_values \/ past_keys \/ null_key
              THEN \E crash \in BOOLEAN :
                       decoded' = [res   |-> IF crash THEN Panic
                                             ELSE Some(NodeArray(<<>>)),
                                   freed |-> <<>>]
              ELSE decoded' = from_mpv_node(foreign.val, <<>>)
    /\ pc' = "listed"
    /\ UNCHANGED <<owned, foreign, errorVars, eventVars, clientVars, handleVars>>

NextList == DecodeList

SpecList == InitList /\ [][NextList]_vars

\* C27: decoding a foreign array or map reads only the slots 0..count-1 of
\* the values array and (for a map) of the keys array: no slot when the
\* values pointer is null or when the declared count is zero or negative,
\* nothing past the end of an array, and never through a null keys pointer.
C27_ReadsWithinCount ==
    pc = "listed" =>
        LET list == Deref(foreign.val.u)
        IN  /\ (list.values = NULL \/ list.num <= 0) =>
                   (reads.values = 0 /\ reads.keys = {})
            /\ list.num > 0 =>
                   (reads.values <= list.num /\ \A i \in reads.keys : i <= list.num)
            /\ ~reads.null_key

(***************************************************************************)
(* SpecEvent: the engine hands out one event record, Event::from_mpv_event *)
(* decodes it.                                                             *)
(***************************************************************************)
\* The status codes of the records: success, a positive (informational)
\* return, and two errors.
EventStatuses ==
    { mpv_error_MPV_ERROR_SUCCESS, 1, mpv_error_MPV_ERROR_INVALID_PARAMETER,
      mpv_error_MPV_ERROR_LOADING_FAILED }

\* The correlation ids of the records.
ReplyUserdata == { 7, 42 }

\* mpv_event_log_message: text that is valid or not, levels known or not.
LogMessagePayloads ==
    { [prefix |-> <<97, 0>>, level |-> <<98, 0>>, text |-> text,
       log_level |-> log_level] :
      text \in { <<97, 98, 0>>, <<255, 0>> },
      log_level \in { mpv_log_level_MPV_LOG_LEVEL_NONE,
                      mpv_log_level_MPV_LOG_LEVEL_ERROR,
                      mpv_log_level_MPV_LOG_LEVEL_ERROR + 5,
                      mpv_log_level_MPV_LOG_LEVEL_TRACE } }
        \cup { [prefix |-> <<255, 0>>, level |-> <<98, 0>>, text |-> <<97, 0>>,
                log_level |-> mpv_log_level_MPV_LOG_LEVEL_INFO] }

\* The cell that data points at, written by the engine as a value of format.
Cell(format, u) == Ptr(ForeignNode(format, u))

\* mpv_event_property: a name, and a format with the data it announces.
PropertyPayloads ==
    { [name |-> name, format |-> fd[1], data |-> fd[2]] :
      name \in { <<97, 0>>, <<255, 0>> },
      fd \in { <<mpv_format_MPV_FORMAT_NONE, NULL>> }
          \cup { <<format, Cell(format, 0)>> :
                 format \in { mpv_format_MPV_FORMAT_NONE } }
          \cup { <<format, Cell(format, mem)>> :
                 format \in { mpv_format_MPV_FORMAT_STRING },
                 mem \in { <<98, 0>>, <<255, 0>> } }
          \cup { <<format, Cell(format, flag)>> :
                 format \in { mpv_format_MPV_FORMAT_FLAG }, flag \in { 1 } }
          \cup { <<format, Cell(format, int64)>> :
                 format \in { mpv_format_MPV_FORMAT_INT64 }, int64 \in { 7 } }
          \cup { <<format, Cell(format, Ptr(list))>> :
                 format \in { mpv_format_MPV_FORMAT_NODE_MAP },
                 list \in { [num |-> 1,
                             values |-> Ptr(<<ForeignNode(mpv_format_MPV_FORMAT_FLAG, 0)>>),
                             keys |-> Ptr(<<<<97, 0>>>>)] } } }

\* mpv_event_command: the result node.
CommandPayloads ==
    EngineLeaves
        \cup { ForeignList(mpv_format_MPV_FORMAT_NODE_ARRAY, 1, Ptr(<<v>>), NULL) :
               v \in EngineMapLeaves }
        \cup { ForeignList(mpv_format_MPV_FORMAT_NODE_MAP, 1, Ptr(<<v>>),
                           Ptr(<<<<97, 0>>>>)) : v \in EngineMapLeaves }

StartFilePayloads == { [playlist_entry_id |-> 1] }

\* mpv_event_end_file: every reason from EOF to one past REDIRECT (1 and 6
\* are not known), with an error field that is or is not an error.
EndFilePayloads ==
    { [reason |-> reason, error |-> error, playlist_entry_id |-> 1,
       playlist_insert_id |-> 0, playlist_insert_num_entries |-> 0] :
      reason \in mpv_end_file_reason_MPV_END_FILE_REASON_EOF ..
                 (mpv_end_file_reason_MPV_END_FILE_REASON_REDIRECT + 1),
      error \in EventStatuses }

\* mpv_event_client_message: num_args strings, valid or not.
ClientMessagePayloads ==
    { [num_args |-> Len(args), args |-> Ptr(args)] :
      args \in SeqsUpTo({ <<97, 0>>, <<98, 97, 0>>, <<255, 0>> }, MaxLen) }

HookPayloads == { [name |-> name, id |-> 9] : name \in { <<97, 0>>, <<255, 0>> } }

\* What the engine points data at for a record of kind event_id: NULL, or
\* the payload of the kind (something opaque for a kind without one).
PayloadsOf(event_id) ==
    { NULL } \cup
    { Ptr(payload) : payload \in
        CASE event_id = mpv_event_id_MPV_EVENT_LOG_MESSAGE -> LogMessagePayloads
          [] event_id \in { mpv_event_id_MPV_EVENT_GET_PROPERTY_REPLY,
                            mpv_event_id_MPV_EVENT_SET_PROPERTY_REPLY,
                            mpv_event_id_MPV_EVENT_PROPERTY_CHANGE } ->
                 PropertyPayloads
          [] event_id = mpv_event_id_MPV_EVENT_COMMAND_REPLY -> CommandPayloads
          [] event_id = mpv_event_id_MPV_EVENT_START_FILE -> StartFilePayloads
          [] event_id = mpv_event_id_MPV_EVENT_END_FILE -> EndFilePayloads
          [] event_id = mpv_event_id_MPV_EVENT_CLIENT_MESSAGE ->
                 ClientMessagePayloads
          [] event_id = mpv_event_id_MPV_EVENT_HOOK -> HookPayloads
          [] OTHER -> { [opaque |-> TRUE] } }

\* Every kind from NONE to one past HOOK, the ones this layer does not
\* decode included.
EventIds == mpv_event_id_MPV_EVENT_NONE .. (mpv_event_id_MPV_EVENT_HOOK + 1)

EventRecords ==
    UNION { { [event_id |-> event_id, error |-> error,
               reply_userdata |-> reply_userdata, data |-> data] :
              error \in EventStatuses, reply_userdata \in ReplyUserdata,
              data \in PayloadsOf(event_id) } :
            event_id \in EventIds }

InitEvent ==
    /\ pc = "record"
    /\ record \in EventRecords
    /\ outcome = Arm(None, <<>>, FALSE)
    /\ IdleError
    /\ IdleNode
    /\ IdleClient
    /\ IdleHandle

\* The call Event::from_mpv_event(record).
DecodeEvent ==
    /\ pc = "record"
    /\ outcome' = from_mpv_event(record)
    /\ pc' = "event"
    /\ UNCHANGED <<record, errorVars, nodeVars, clientVars, handleVars>>

NextEvent == DecodeEvent

SpecEvent == InitEvent /\ [][NextEvent]_vars

(***************************************************************************)
(* The claims of the event decoder.                                        *)
(***************************************************************************)
\* The kinds whose payload is mandatory.
MandatoryPayloadKinds ==
    { mpv_event_id_MPV_EVENT_LOG_MESSAGE,
      mpv_event_id_MPV_EVENT_GET_PROPERTY_REPLY,
      mpv_event_id_MPV_EVENT_SET_PROPERTY_REPLY,
      mpv_event_id_MPV_EVENT_PROPERTY_CHANGE,
      mpv_event_id_MPV_EVENT_COMMAND_REPLY,
      mpv_event_id_MPV_EVENT_START_FILE,
      mpv_event_id_MPV_EVENT_END_FILE,
      mpv_event_id_MPV_EVENT_CLIENT_MESSAGE,
      mpv_event_id_MPV_EVENT_HOOK }

\* The reply-style kinds.
ReplyKinds ==
    { mpv_event_id_MPV_EVENT_GET_PROPERTY_REPLY,
      mpv_event_id_MPV_EVENT_SET_PROPERTY_REPLY,
      mpv_event_id_MPV_EVENT_COMMAND_REPLY,
      mpv_event_id_MPV_EVENT_PROPERTY_CHANGE }

\* C5: a payload pointer that is not null is released through mpv_free
\* exactly once before from_mpv_event ends, whatever the outcome of the
\* interpretation (a variant, an unrecognized kind, a failed interpretation).
C5_PayloadReleasedOnce ==
    (pc = "event" /\ record.data # NULL) =>
        TimesReleased(PayloadPlace, outcome.freed) = 1

C7_ReplyFoldsStatus ==
    (pc = "event" /\ record.event_id \in ReplyKinds /\ IsSome(outcome.res)) =>
        /\ record.error < 0 =>
               /\ outcome.res.val.result = Err(from_mpv_error(record.error).val)
               /\ ~outcome.deref
        /\ record.error >= 0 => outcome.res.val.result.tag = "Ok"

\* The payload of a record whose data is not null.
Payload == Deref(record.data)

\* C8: a GET_PROPERTY_REPLY or PROPERTY_CHANGE with success status whose
\* payload carries format NONE decodes to Ok(None).  (Stated for status 0,
\* which every reading takes as success.)
C8_UnavailableIsOkNone ==
    (pc = "event"
        /\ record.event_id \in { mpv_event_id_MPV_EVENT_GET_PROPERTY_REPLY,
                                 mpv_event_id_MPV_EVENT_PROPERTY_CHANGE }
        /\ record.error = mpv_error_MPV_ERROR_SUCCESS
        /\ record.data # NULL
        /\ Payload.format = mpv_format_MPV_FORMAT_NONE) =>
        /\ IsSome(outcome.res)
        /\ outcome.res.val.result = Ok(None)

\* C8 as amended: such a record (status 0, format NONE) decodes to Ok of a
\* present Property that keeps the name and whose data is None when the
\* name is valid text, and to Ok(None) only when the name is not; never to
\* Err, never to a Property with data.
C8_UnavailableIsPropertyWithoutData ==
    (pc = "event"
        /\ record.event_id \in { mpv_event_id_MPV_EVENT_GET_PROPERTY_REPLY,
                                 mpv_event_id_MPV_EVENT_PROPERTY_CHANGE }
        /\ record.error = mpv_error_MPV_ERROR_SUCCESS
        /\ record.data # NULL
        /\ Payload.format = mpv_format_MPV_FORMAT_NONE) =>
        /\ IsSome(outcome.res)
        /\ outcome.res.val.result =
               IF Utf8Valid(CStrBytes(Payload.name))
               THEN Ok(Some([name |-> CStrBytes(Payload.name), data |-> None]))
               ELSE Ok(None)

\* C8's case: a property change of an unavailable property, its data
\* pointer not null, has been decoded.
C8_Witness ==
    /\ pc = "event"
    /\ record.event_id = mpv_event_id_MPV_EVENT_PROPERTY_CHANGE
    /\ record.error = mpv_error_MPV_ERROR_SUCCESS
    /\ record.data # NULL
    /\ Payload.format = mpv_format_MPV_FORMAT_NONE
    /\ Payload.data # NULL
    /\ outcome.res = Some([kind |-> "PropertyChange",
                           result |-> Ok(Some([name |-> <<97>>, data |-> None])),
                           reply_userdata |-> record.reply_userdata])

\* C9: an END_FILE record whose reason is ERROR and whose event status is a
\* negative code s decodes to EndFile with reason Error(classify(s)).
C9_EndFileErrorFromStatus ==
    (pc = "event" /\ record.event_id = mpv_event_id_MPV_EVENT_END_FILE
        /\ record.data # NULL
        /\ Payload.reason = mpv_end_file_reason_MPV_END_FILE_REASON_ERROR
        /\ record.error < 0) =>
        /\ IsSome(outcome.res)
        /\ outcome.res.val.kind = "EndFile"
        /\ outcome.res.val.reason =
               [reason |-> "Error", err |-> from_mpv_error(record.error).val]

\* C9 as amended: the code is the error field of the payload, not the
\* status of the record: when that field is a negative code s the record
\* decodes to EndFile with reason Error(classify(s)), whatever the status of
\* the record and the other fields are; -13 gives Error(LoadingFailed).
C9_EndFileErrorFromPayload ==
    (pc = "event" /\ record.event_id = mpv_event_id_MPV_EVENT_END_FILE
        /\ record.data # NULL
        /\ Payload.reason = mpv_end_file_reason_MPV_END_FILE_REASON_ERROR
        /\ Payload.error < 0) =>
        /\ IsSome(outcome.res)
        /\ outcome.res.val.kind = "EndFile"
        /\ outcome.res.val.reason.reason = "Error"
        /\ get_error_string_code(outcome.res.val.reason.err) = Payload.error
        /\ Payload.error = mpv_error_MPV_ERROR_LOADING_FAILED =>
               outcome.res.val.reason.err = "LoadingFailed"

\* C9's case: an END_FILE record with reason ERROR and error field -13,
\* under a record status that is no error, has been decoded.
C9_Witness ==
    /\ pc = "event"
    /\ record.event_id = mpv_event_id_MPV_EVENT_END_FILE
    /\ record.error = mpv_error_MPV_ERROR_SUCCESS
    /\ record.data # NULL
    /\ Payload.reason = mpv_end_file_reason_MPV_END_FILE_REASON_ERROR
    /\ Payload.error = mpv_error_MPV_ERROR_LOADING_FAILED
    /\ IsSome(outcome.res)
    /\ outcome.res.val.reason = [reason |-> "Error", err |-> "LoadingFailed"]

\* The kinds whose Event carries a correlation id.
CorrelatedKinds == ReplyKinds \cup { mpv_event_id_MPV_EVENT_HOOK }

\* C21: the correlation id is echoed unchanged: for every GET_PROPERTY_REPLY,
\* SET_PROPERTY_REPLY, COMMAND_REPLY, PROPERTY_CHANGE and HOOK record that
\* decodes to an Event, the reply_userdata of the Event is the
\* reply_userdata of the record, with a result that is Ok and with one that
\* is Err.
C21_UserdataEchoed ==
    (pc = "event" /\ record.event_id \in CorrelatedKinds /\ IsSome(outcome.res)) =>
        outcome.res.val.reply_userdata = record.reply_userdata

\* C21's case: a reply with an error status and the id 42 has been decoded
\* to an Event whose result is Err.
C21_Witness ==
    /\ pc = "event"
    /\ record.event_id = mpv_event_id_MPV_EVENT_COMMAND_REPLY
    /\ record.reply_userdata = 42
    /\ IsSome(outcome.res)
    /\ outcome.res.val.result.tag = "Err"
    /\ outcome.res.val.reply_userdata = 42

\* The kinds from_mpv_event has an arm for.
ArmKinds ==
    { mpv_event_id_MPV_EVENT_SHUTDOWN, mpv_event_id_MPV_EVENT_LOG_MESSAGE,
      mpv_event_id_MPV_EVENT_GET_PROPERTY_REPLY,
      mpv_event_id_MPV_EVENT_SET_PROPERTY_REPLY,
      mpv_event_id_MPV_EVENT_COMMAND_REPLY, mpv_event_id_MPV_EVENT_START_FILE,
      mpv_event_id_MPV_EVENT_END_FILE, mpv_event_id_MPV_EVENT_FILE_LOADED,
      mpv_event_id_MPV_EVENT_IDLE, mpv_event_id_MPV_EVENT_TICK,
      mpv_event_id_MPV_EVENT_CLIENT_MESSAGE, mpv_event_id_MPV_EVENT_VIDEO_RECONFIG,
      mpv_event_id_MPV_EVENT_AUDIO_RECONFIG, mpv_event_id_MPV_EVENT_SEEK,
      mpv_event_id_MPV_EVENT_PLAYBACK_RESTART,
      mpv_event_id_MPV_EVENT_PROPERTY_CHANGE,
      mpv_event_id_MPV_EVENT_QUEUE_OVERFLOW, mpv_event_id_MPV_EVENT_HOOK }

ClientArgsPlace == Append(PayloadPlace, "args")

\* C24: for a CLIENT_MESSAGE record whose payload declares num_args = n the
\* decoded args are exactly n strings, the foreign strings at indices
\* 0..n-1 in order, and the storage of the array is released exactly once.
C24_ClientMessageArgs ==
    (pc = "event" /\ record.event_id = mpv_event_id_MPV_EVENT_CLIENT_MESSAGE
                  /\ record.data # NULL) =>
        LET msg == Deref(record.data)
        IN  /\ IsSome(outcome.res)
            /\ outcome.res.val.kind = "ClientMessage"
            /\ Len(outcome.res.val.args) = msg.num_args
            /\ \A i \in 1..msg.num_args :
                   outcome.res.val.args[i] = CStrBytes(Deref(msg.args)[i])
            /\ TimesReleased(ClientArgsPlace, outcome.freed) = 1

\* The reasons that carry no error code, with the EndFileReason of each.
PlainReasons ==
    [r \in { mpv_end_file_reason_MPV_END_FILE_REASON_EOF,
             mpv_end_file_reason_MPV_END_FILE_REASON_STOP,
             mpv_end_file_reason_MPV_END_FILE_REASON_QUIT,
             mpv_end_file_reason_MPV_END_FILE_REASON_REDIRECT } |->
        CASE r = mpv_end_file_reason_MPV_END_FILE_REASON_EOF -> "EOF"
          [] r = mpv_end_file_reason_MPV_END_FILE_REASON_STOP -> "Stop"
          [] r = mpv_end_file_reason_MPV_END_FILE_REASON_QUIT -> "Quit"
          [] OTHER -> "Redirect"]

\* C28: an END_FILE event with reason ERROR and an error code that
\* classifies to no error aborts; an END_FILE event with reason EOF, STOP,
\* QUIT or REDIRECT decodes to the matching EndFileReason whatever the error
\* code is, and never aborts because of it.
C28_EndFileReasonDecoding ==
    (pc = "event" /\ record.event_id = mpv_event_id_MPV_EVENT_END_FILE
                  /\ record.data # NULL) =>
        LET payload == Deref(record.data)
        IN  /\ (/\ payload.reason = mpv_end_file_reason_MPV_END_FILE_REASON_ERROR
                /\ from_mpv_error(payload.error) = None) =>
                   outcome.res = Panic
            /\ payload.reason \in DOMAIN PlainReasons =>
                   /\ IsSome(outcome.res)
                   /\ outcome.res.val.kind = "EndFile"
                   /\ outcome.res.val.reason = [reason |-> PlainReasons[payload.reason]]

\* C28's case: an END_FILE record with reason ERROR and the error code 0 has
\* made the decoder abort.
C28_Witness ==
    /\ pc = "event"
    /\ record.event_id = mpv_event_id_MPV_EVENT_END_FILE
    /\ record.data # NULL
    /\ Deref(record.data).reason = mpv_end_file_reason_MPV_END_FILE_REASON_ERROR
    /\ Deref(record.data).error = mpv_error_MPV_ERROR_SUCCESS
    /\ outcome.res = Panic

\* C29: an END_FILE event whose reason is none of the five known reasons is
\* treated as unknown: from_mpv_event does not abort on it.
C29_UnknownReasonNoAbort ==
    (pc = "event" /\ record.event_id = mpv_event_id_MPV_EVENT_END_FILE
                  /\ record.data # NULL
                  /\ Deref(record.data).reason \notin
                         DOMAIN PlainReasons
                             \cup { mpv_end_file_reason_MPV_END_FILE_REASON_ERROR }) =>
        outcome.res # Panic

(***************************************************************************)
(* SpecClient: a caller polls one handle with wait_event, call after call. *)
(***************************************************************************)
\* The records the engine delivers to the polls: no event, kinds without a
\* payload, two kinds this layer does not decode, and two kinds with a
\* payload that is there, missing or not valid text.
ClientEventRecords ==
    UNION { { [event_id |-> event_id, error |-> mpv_error_MPV_ERROR_SUCCESS,
               reply_userdata |-> 7, data |-> data] :
              data \in PayloadsOf(event_id) } :
            event_id \in { mpv_event_id_MPV_EVENT_NONE,
                           mpv_event_id_MPV_EVENT_SHUTDOWN,
                           mpv_event_id_MPV_EVENT_START_FILE,
                           mpv_event_id_MPV_EVENT_FILE_LOADED + 1,
                           mpv_event_id_MPV_EVENT_TICK,
                           mpv_event_id_MPV_EVENT_HOOK,
                           mpv_event_id_MPV_EVENT_HOOK + 1 } }

InitClient ==
    /\ pc = "ready"
    /\ IdleClient
    /\ IdleHandle
    /\ IdleError
    /\ IdleNode
    /\ IdleEvent

\* A slip in wait_event: a poll that met an empty queue (a record of kind
\* NONE) made again at once, until the engine has an event or nothing.
wait_event_PollsUntilEvent ==
    /\ pc = "ready"
    /\ Len(delivered) < MaxEvents
    /\ \E event \in { NULL } \cup { Ptr(r) : r \in ClientEventRecords },
          again \in { NULL } \cup { Ptr(r) : r \in ClientEventRecords } :
         LET empty == event # NULL
                        /\ Deref(event).event_id = mpv_event_id_MPV_EVENT_NONE
             last == IF empty THEN again ELSE event
         IN  /\ delivered' = IF empty
                             THEN Append(Append(delivered, event), again)
                             ELSE Append(delivered, event)
             /\ record' = IF last = NULL THEN NoEvent ELSE Deref(last)
             /\ outcome' = IF last = NULL
                           THEN Arm(None, <<>>, FALSE)
                           ELSE from_mpv_event(record')
    /\ returned' = IF outcome'.res = Panic
                   THEN returned
                   ELSE Append(returned, outcome'.res)
    /\ pc' = IF outcome'.res = Panic THEN "aborted" ELSE "ready"
    /\ UNCHANGED <<errorVars, nodeVars, handleVars>>

\* MpvHandle::wait_event: one mpv_wait_event, which returns a null pointer
\* or a pointer to a record; None for the null pointer, from_mpv_event of
\* the record otherwise.  A panic of the decoder ends the run with nothing
\* returned.
wait_event ==
    /\ pc = "ready"
    /\ Len(delivered) < MaxEvents
    /\ \E event \in { NULL } \cup { Ptr(r) : r \in ClientEventRecords } :
         /\ delivered' = Append(delivered, event)
         /\ record' = IF event = NULL THEN NoEvent ELSE Deref(event)
         /\ outcome' = IF event = NULL
                       THEN Arm(None, <<>>, FALSE)
                       ELSE from_mpv_event(record')
    /\ returned' = IF outcome'.res = Panic
                   THEN returned
                   ELSE Append(returned, outcome'.res)
    /\ pc' = IF outcome'.res = Panic THEN "aborted" ELSE "ready"
    /\ UNCHANGED <<errorVars, nodeVars, handleVars>>

NextClient == wait_event

SpecClient == InitClient /\ [][NextClient]_vars

\* The kinds that have an arm of their own in from_mpv_event, each with the
\* name of the Event variant of the arm.
DecodedKinds ==
    [ Shutdown |-> mpv_event_id_MPV_EVENT_SHUTDOWN,
      LogMessage |-> mpv_event_id_MPV_EVENT_LOG_MESSAGE,
      GetPropertyReply |-> mpv_event_id_MPV_EVENT_GET_PROPERTY_REPLY,
      SetPropertyReply |-> mpv_event_id_MPV_EVENT_SET_PROPERTY_REPLY,
      CommandReply |-> mpv_event_id_MPV_EVENT_COMMAND_REPLY,
      StartFile |-> mpv_event_id_MPV_EVENT_START_FILE,
      EndFile |-> mpv_event_id_MPV_EVENT_END_FILE,
      FileLoaded |-> mpv_event_id_MPV_EVENT_FILE_LOADED,
      Idle |-> mpv_event_id_MPV_EVENT_IDLE,
      Tick |-> mpv_event_id_MPV_EVENT_TICK,
      ClientMessage |-> mpv_event_id_MPV_EVENT_CLIENT_MESSAGE,
      VideoReconfig |-> mpv_event_id_MPV_EVENT_VIDEO_RECONFIG,
      AudioReconfig |-> mpv_event_id_MPV_EVENT_AUDIO_RECONFIG,
      Seek |-> mpv_event_id_MPV_EVENT_SEEK,
      PlaybackRestart |-> mpv_event_id_MPV_EVENT_PLAYBACK_RESTART,
      PropertyChange |-> mpv_event_id_MPV_EVENT_PROPERTY_CHANGE,
      QueueOverflow |-> mpv_event_id_MPV_EVENT_QUEUE_OVERFLOW,
      Hook |-> mpv_event_id_MPV_EVENT_HOOK ]

\* C10: wait_event drops and reorders nothing: the i-th call that returned
\* received the i-th delivery; a delivered record of any kind other than
\* NONE is returned as Some(Event), and None is returned only when the
\* engine reported no event.
C10_EveryRecordReturned ==
    \A i \in 1 .. Len(returned) :
        /\ (delivered[i] # NULL
              /\ Deref(delivered[i]).event_id # mpv_event_id_MPV_EVENT_NONE) =>
               IsSome(returned[i])
        /\ returned[i] = None =>
               \/ delivered[i] = NULL
               \/ Deref(delivered[i]).event_id = mpv_event_id_MPV_EVENT_NONE

\* C10 as amended: every call that returns hands back the decode of the
\* one record it received, in delivery order: Some(Event) of the variant of
\* the record's kind when the kind is one of the eighteen decoded kinds,
\* None when the engine gave no record, a record of kind NONE or one of a
\* kind this layer does not decode.  A call whose decode panicked returns
\* nothing and is the last call.
C10_ReturnsDecodeOfReceived ==
    /\ Len(returned) = IF pc = "aborted" THEN Len(delivered) - 1 ELSE Len(delivered)
    /\ \A i \in 1 .. Len(returned) :
          IF delivered[i] # NULL
                /\ \E v \in DOMAIN DecodedKinds :
                      DecodedKinds[v] = Deref(delivered[i]).event_id
          THEN /\ IsSome(returned[i])
               /\ DecodedKinds[returned[i].val.kind] = Deref(delivered[i]).event_id
          ELSE returned[i] = None

\* C10's case: a record of a kind that is not decoded, then a TICK, have
\* been delivered and the two calls have returned.
C10_Witness ==
    /\ Len(returned) = 2
    /\ delivered[1] # NULL
    /\ Deref(delivered[1]).event_id = mpv_event_id_MPV_EVENT_FILE_LOADED + 1
    /\ returned[1] = None
    /\ delivered[2] # NULL
    /\ Deref(delivered[2]).event_id = mpv_event_id_MPV_EVENT_TICK
    /\ returned[2] = Some([kind |-> "Tick"])

\* The record the engine hands out when the queue is empty: kind NONE with
\* a null payload.
EmptyQueue(event) ==
    /\ event # NULL
    /\ Deref(event).event_id = mpv_event_id_MPV_EVENT_NONE
    /\ Deref(event).data = NULL

\* C11: every wait_event call makes exactly one foreign poll and returns at
\* most one event; a poll that meets an empty queue (kind NONE, null
\* payload) returns None, releases nothing, and is not made again.
C11_OnePollPerCall ==
    [][ /\ Len(delivered') = Len(delivered) + 1
        /\ Len(returned') <= Len(returned) + 1
        /\ EmptyQueue(delivered'[Len(delivered')]) =>
             /\ returned' = Append(returned, None)
             /\ outcome'.freed = <<>>
             /\ ~outcome'.deref ]_vars

\* C11's case: a call has met an empty queue and has returned.
C11_Witness ==
    /\ Len(delivered) = 1
    /\ EmptyQueue(delivered[1])
    /\ returned = <<None>>
    /\ outcome.freed = <<>>
    /\ pc = "ready"

(***************************************************************************)
(* SpecHandle: the MpvHandle values of one core: new, initialize,          *)
(* create_client, create_weak_client, terminate, and the drop at scope     *)
(* exit.  The engine is the foreign side as raw/funcs.rs documents it: a   *)
(* core, and for every pointer it handed out whether the client is weak    *)
(* and the destroying calls made on the pointer.                           *)
(***************************************************************************)
\* The status codes mpv_initialize returns: an error when the core is
\* already running (or gone), success or an error when it is not.
InitializeStatuses(egn) ==
    IF egn.core = "Uninitialized"
    THEN { mpv_error_MPV_ERROR_SUCCESS, mpv_error_MPV_ERROR_NOMEM }
    ELSE { mpv_error_MPV_ERROR_INVALID_PARAMETER }

\* The pointer the engine hands out next.
FreshPointer(egn) == Ptr(Len(egn.clients) + 1)

\* The core is gone once every client that is not weak has been destroyed.
CoreAfterDestroy(egn, clients) ==
    IF \A c \in DOMAIN clients : clients[c].weak \/ clients[c].calls # <<>>
    THEN "Destroyed"
    ELSE egn.core

\* mpv_create() that succeeded: a core that is not initialized, one client.
mpv_create(egn) ==
    [core |-> "Uninitialized",
     clients |-> Append(egn.clients, [weak |-> FALSE, calls |-> <<>>])]

\* mpv_initialize(ctx) that returned st.
mpv_initialize(egn, ctx, st) ==
    IF egn.core = "Uninitialized" /\ st = mpv_error_MPV_ERROR_SUCCESS
    THEN [egn EXCEPT !.core = "Initialized"]
    ELSE egn

\* mpv_create_client(ctx, name) and mpv_create_weak_client(ctx, name) that
\* succeeded: one more client on the same core.
mpv_create_client(egn, ctx, weak) ==
    [egn EXCEPT !.clients = Append(@, [weak |-> weak, calls |-> <<>>])]

\* mpv_destroy(ctx): the client of ctx detached.
mpv_destroy(egn, ctx) ==
    LET clients == [egn.clients EXCEPT
                      ![Deref(ctx)].calls = Append(@, "mpv_destroy")]
    IN  [core |-> CoreAfterDestroy(egn, clients), clients |-> clients]

\* mpv_terminate_destroy(ctx): the client of ctx destroyed, the player quit.
mpv_terminate_destroy(egn, ctx) ==
    [core |-> "Destroyed",
     clients |-> [egn.clients EXCEPT
                    ![Deref(ctx)].calls = Append(@, "mpv_terminate_destroy")]]

\* An MpvHandle value: the pointer it wraps, and whether the value is still
\* owned by the caller, was dropped, or was forgotten by terminate.
MpvHandle(ctx) == [ptr |-> ctx, owner |-> "owned"]

\* The handles a call can be made on.
Owned == { h \in DOMAIN handles : handles[h].owner = "owned" }

InitHandle ==
    /\ pc = "handles"
    /\ IdleHandle
    /\ IdleError
    /\ IdleNode
    /\ IdleEvent
    /\ IdleClient

\* MpvHandle::new: None when mpv_create returns a null pointer.
new ==
    /\ pc = "handles"
    /\ engine.core = "None"
    /\ \E ctx \in { NULL, FreshPointer(engine) } :
         IF ctx = NULL
         THEN /\ ret' = [op |-> "new", val |-> None]
              /\ UNCHANGED <<handles, engine>>
         ELSE /\ engine' = mpv_create(engine)
              /\ handles' = Append(handles, MpvHandle(ctx))
              /\ ret' = [op |-> "new", val |-> Some(Len(handles) + 1)]
    /\ UNCHANGED <<pc, heap, errorVars, nodeVars, eventVars, clientVars>>

\* MpvHandle::initialize.
initialize ==
    /\ pc = "handles"
    /\ \E h \in Owned, st \in InitializeStatuses(engine) :
         /\ engine' = mpv_initialize(engine, handles[h].ptr, st)
         /\ ret' = [op |-> "initialize", h |-> h, val |-> from_mpv_error(st)]
    /\ UNCHANGED <<pc, handles, heap, errorVars, nodeVars, eventVars, clientVars>>

\* create_client, had it wrapped the pointer of the handle it was called on
\* instead of the one the engine returned.
create_client_WrapsSelf ==
    /\ pc = "handles"
    /\ Len(handles) < MaxHandles
    /\ \E h \in Owned :
         \E ctx \in IF engine.core = "Initialized"
                    THEN { NULL, FreshPointer(engine) } ELSE { NULL } :
           IF ctx = NULL
           THEN /\ ret' = [op |-> "create_client", h |-> h, val |-> None]
                /\ UNCHANGED <<handles, engine>>
           ELSE /\ engine' = mpv_create_client(engine, handles[h].ptr, FALSE)
                /\ handles' = Append(handles, MpvHandle(handles[h].ptr))
                /\ ret' = [op |-> "create_client", h |-> h,
                           val |-> Some(Len(handles) + 1)]
    /\ UNCHANGED <<pc, heap, errorVars, nodeVars, eventVars, clientVars>>

\* MpvHandle::create_client: None when mpv_create_client returns a null
\* pointer, as it does before the core is initialized.
create_client ==
    /\ pc = "handles"
    /\ Len(handles) < MaxHandles
    /\ \E h \in Owned :
         \E ctx \in IF engine.core = "Initialized"
                    THEN { NULL, FreshPointer(engine) } ELSE { NULL } :
           IF ctx = NULL
           THEN /\ ret' = [op |-> "create_client", h |-> h, val |-> None]
                /\ UNCHANGED <<handles, engine>>
           ELSE /\ engine' = mpv_create_client(engine, handles[h].ptr, FALSE)
                /\ handles' = Append(handles, MpvHandle(ctx))
                /\ ret' = [op |-> "create_client", h |-> h,
                           val |-> Some(Len(handles) + 1)]
    /\ UNCHANGED <<pc, heap, errorVars, nodeVars, eventVars, clientVars>>

\* MpvHandle::create_weak_client.
create_weak_client ==
    /\ pc = "handles"
    /\ Len(handles) < MaxHandles
    /\ \E h \in Owned :
         \E ctx \in IF engine.core = "Initialized"
                    THEN { NULL, FreshPointer(engine) } ELSE { NULL } :
           IF ctx = NULL
           THEN /\ ret' = [op |-> "create_weak_client", h |-> h, val |-> None]
                /\ UNCHANGED <<handles, engine>>
           ELSE /\ engine' = mpv_create_client(engine, handles[h].ptr, TRUE)
                /\ handles' = Append(handles, MpvHandle(ctx))
                /\ ret' = [op |-> "create_weak_client", h |-> h,
                           val |-> Some(Len(handles) + 1)]
    /\ UNCHANGED <<pc, heap, errorVars, nodeVars, eventVars, clientVars>>

\* terminate, had it not forgotten self: the value goes out of scope at the
\* end of the call and its drop runs too.
terminate_WithoutForget ==
    /\ pc = "handles"
    /\ \E h \in Owned :
         /\ engine' = mpv_destroy(mpv_terminate_destroy(engine, handles[h].ptr),
                                  handles[h].ptr)
         /\ handles' = [handles EXCEPT ![h].owner = "forgotten"]
         /\ ret' = [op |-> "terminate", h |-> h]
    /\ UNCHANGED <<pc, heap, errorVars, nodeVars, eventVars, clientVars>>

\* MpvHandle::terminate(self): mpv_terminate_destroy, then mem::forget(self),
\* so that no drop follows.
terminate ==
    /\ pc = "handles"
    /\ \E h \in Owned :
         /\ engine' = mpv_terminate_destroy(engine, handles[h].ptr)
         /\ handles' = [handles EXCEPT ![h].owner = "forgotten"]
         /\ ret' = [op |-> "terminate", h |-> h]
    /\ UNCHANGED <<pc, heap, errorVars, nodeVars, eventVars, clientVars>>

\* Drop for MpvHandle: the value goes out of scope, mpv_destroy(self.0).
drop ==
    /\ pc = "handles"
    /\ \E h \in Owned :
         /\ engine' = mpv_destroy(engine, handles[h].ptr)
         /\ handles' = [handles EXCEPT ![h].owner = "dropped"]
         /\ ret' = [op |-> "drop", h |-> h]
    /\ UNCHANGED <<pc, heap, errorVars, nodeVars, eventVars, clientVars>>

NextHandle ==
    \/ new
    \/ initialize
    \/ create_client
    \/ create_weak_client
    \/ terminate
    \/ drop

SpecHandle == InitHandle /\ [][NextHandle]_vars

\* The destroying calls made so far on the pointer of handle h.
DestroyCalls(egn, hs, h) == egn.clients[Deref(hs[h].ptr)].calls

\* C12: every MpvHandle whose life has ended, by scope exit or by
\* terminate, has had exactly one destroying call on its pointer:
\* mpv_destroy for the drop, mpv_terminate_destroy for terminate, never
\* both, never twice; and none while the value is still owned.
C12_DestroyedExactlyOnce ==
    \A h \in DOMAIN handles :
        DestroyCalls(engine, handles, h) =
            CASE handles[h].owner = "owned" -> <<>>
              [] handles[h].owner = "dropped" -> <<"mpv_destroy">>
              [] handles[h].owner = "forgotten" -> <<"mpv_terminate_destroy">>

\* C12's case: one handle was terminated, another dropped.
C12_Witness ==
    \E h, k \in DOMAIN handles :
        /\ handles[h].owner = "forgotten"
        /\ handles[k].owner = "dropped"
        /\ DestroyCalls(engine, handles, h) = <<"mpv_terminate_destroy">>
        /\ DestroyCalls(engine, handles, k) = <<"mpv_destroy">>

\* C13: in every interleaving of the operations of a primary handle and
\* its strong and weak siblings, a call changes the wrapper state of at most
\* the handle it is made on, makes no destroying call on the pointer of a
\* handle that did not act, leaves every owned handle's pointer undestroyed,
\* and a drop issues mpv_destroy on the pointer of the dropped handle alone.
C13_SiblingIndependence ==
    [][ /\ Cardinality({ h \in DOMAIN handles : handles'[h] # handles[h] }) <= 1
        /\ \A h \in DOMAIN handles :
              handles'[h] = handles[h] =>
                  DestroyCalls(engine', handles', h) = DestroyCalls(engine, handles, h)
        /\ \A h \in DOMAIN handles' :
              handles'[h].owner = "owned" => DestroyCalls(engine', handles', h) = <<>>
        /\ ret'.op = "drop" =>
              /\ handles'[ret'.h].owner = "dropped"
              /\ DestroyCalls(engine', handles', ret'.h) = <<"mpv_destroy">> ]_vars

\* C13's case: with a primary, a strong and a weak handle, one was dropped
\* and the two others are still owned.
C13_Witness ==
    /\ Len(handles) = 3
    /\ \E c \in DOMAIN engine.clients : engine.clients[c].weak
    /\ \E h \in DOMAIN handles :
          /\ handles[h].owner = "dropped"
          /\ \A k \in DOMAIN handles \ { h } : handles[k].owner = "owned"
    /\ ret.op = "drop"

\* C14: initialize moves a handle that is not initialized to Initialized
\* when the engine reports success; on a handle that is Initialized it
\* returns Some(MpvError) and leaves it Initialized; nothing moves a handle
\* back to Uninitialized.
C14_Lifecycle ==
    [][ /\ (ret'.op = "initialize" /\ engine.core = "Uninitialized"
              /\ ret'.val = None) =>
               engine'.core = "Initialized"
        /\ (ret'.op = "initialize" /\ engine.core = "Initialized") =>
               /\ IsSome(ret'.val)
               /\ engine'.core = "Initialized"
        /\ engine.core \in { "Initialized", "Destroyed" } =>
               engine'.core # "Uninitialized" ]_vars

\* C14's case: initialize was called on a handle that is Initialized.
C14_Witness ==
    /\ ret.op = "initialize"
    /\ IsSome(ret.val)
    /\ engine.core = "Initialized"
    /\ handles[ret.h].owner = "owned"

(***************************************************************************)
(* SpecCall: one call of set_option, command or command_node on a handle,  *)
(* with the allocations the call makes and the releases it makes.  The     *)
(* argument Node is in owned; foreign is the node the engine writes into   *)
(* the result of a command that succeeds.                                  *)
(***************************************************************************)
\* The option names: one plain, one with a 0 byte in it.
OptionNames == { <<97>>, <<97, 0, 98>> }

\* The Nodes handed to set_option and command_node.
CallArguments ==
    OwnedLeaves
        \cup OwnedCollections({ NodeString(<<97, 98>>), NodeString(<<97, 0, 98>>) })

\* The argument lists handed to command.
CommandArguments == SeqsUpTo({ <<97>>, <<98, 0, 99>> }, MaxLen)

\* What the engine writes into the result of a command that succeeds.
CallResults == CommandPayloads

\* The status codes of the foreign calls: success or an error.
SetOptionStatuses ==
    { mpv_error_MPV_ERROR_SUCCESS, mpv_error_MPV_ERROR_OPTION_NOT_FOUND }

CommandStatuses ==
    { mpv_error_MPV_ERROR_SUCCESS, mpv_error_MPV_ERROR_COMMAND }

\* The places of the allocations of a call.
NamePlace == <<"name">>

DataPlace == <<"data">>

RawPlace == <<"raw">>

ArgsPlace == <<"args">>

ResultPlace == <<"result">>

BoxPlace(p) == <<"box">> \o p

\* The members of a set of places, one after the other.
RECURSIVE SeqOf(_)
SeqOf(S) ==
    IF S = {}
    THEN <<>>
    ELSE LET x == CHOOSE y \in S : TRUE
         IN  <<x>> \o SeqOf(S \ { x })

\* mpv_free_node_contents(node) on the node held at place p: everything that
\* hangs from the node released, the node itself kept.
mpv_free_node_contents(node, p) == SeqOf(ForeignBuffers(node, p))

\* The node a command call finds in *result after the foreign call: the
\* zeroed node it allocated, overwritten by the engine on success.
ResultNode(st, written) ==
    IF st = mpv_error_MPV_ERROR_SUCCESS
    THEN written
    ELSE ForeignNode(mpv_format_MPV_FORMAT_NONE, 0)

\* What a call leaves behind.
Call(op, val, called, require_result, result) ==
    [op |-> op, val |-> val, called |-> called,
     require_result |-> require_result, result |-> result]

\* A slip in the let-else of set_option and command_node: the Node that
\* cannot be encoded swallowed, the call ending as if it had succeeded.
EncodeFailed_Swallowed(op, require_result) ==
    Call(op, IF op = "set_option" THEN None ELSE Ok(None),
         FALSE, require_result, NULL)

\* What set_option and command_node return when to_mpv_node yields None:
\* `return Some(MpvError::OptionError)`, `return Err(MpvError::CommandError)`,
\* before any foreign call is made.
EncodeFailed(op, require_result) ==
    Call(op, IF op = "set_option" THEN Some("OptionError") ELSE Err("CommandError"),
         FALSE, require_result, NULL)

InitCall ==
    /\ pc = "call"
    /\ owned \in { Some(n) : n \in CallArguments }
    /\ foreign \in { Some(n) : n \in CallResults }
    /\ decoded = [res |-> None, freed |-> <<>>]
    /\ reads = NoReads
    /\ IdleHandle
    /\ IdleError
    /\ IdleEvent
    /\ IdleClient

\* MpvHandle::set_option(name, node).
set_option ==
    /\ pc = "call"
    /\ \E name \in OptionNames, order \in KeyOrders, st \in SetOptionStatuses :
         LET c_name == make_c_string(name)
             raw    == to_mpv_node(owned.val, order)
         IN  IF ~IsSome(c_name)
             THEN \* CString::new(name).unwrap()
                  /\ pc' = "panicked"
                  /\ ret' = Call("set_option", Panic, FALSE, FALSE, NULL)
                  /\ heap' = heap
             ELSE IF raw = Panic
             THEN /\ pc' = "panicked"
                  /\ ret' = Call("set_option", Panic, FALSE, FALSE, NULL)
                  /\ heap' = [heap EXCEPT !.allocated = { NamePlace }]
             ELSE IF raw = None
             THEN \* return Some(MpvError::OptionError)
                  /\ pc' = "returned"
                  /\ ret' = EncodeFailed("set_option", FALSE)
                  /\ heap' = [heap EXCEPT !.allocated = { NamePlace }]
             ELSE /\ pc' = "returned"
                  /\ ret' = Call("set_option", from_mpv_error(st), TRUE, FALSE, NULL)
                  /\ heap' = [heap EXCEPT
                                !.allocated = { NamePlace, DataPlace }
                                    \cup ForeignBuffers(raw.val, RawPlace),
                                !.released = <<NamePlace, DataPlace>>]
    /\ UNCHANGED <<handles, engine, errorVars, nodeVars, eventVars, clientVars>>

\* The places of the argument strings of command, of their array, and of
\* whatever a read past the end of the array comes upon.
ArgPlace(i) == <<"arg", i>>

ArgvPlace == <<"argv">>

WildPlace == <<"wild">>

\* free_array(ptr) on the array of num strings and a null pointer: the
\* string at index 0 is released when there is one, then the index moves on
\* by 8, past the end of an array this short: what that read finds is null
\* (the loop ends) or garbage (released as if it were a string; the model
\* stops the loop there).  The array is released last.
free_array(num, garbage) ==
    IF num = 0
    THEN <<ArgvPlace>>
    ELSE <<ArgPlace(1)>> \o (IF garbage THEN <<WildPlace>> ELSE <<>>) \o <<ArgvPlace>>

\* The argument strings of command up to the first one CString::new refuses.
ConvertedArgs(args) ==
    { i \in 1 .. Len(args) : \A j \in 1 .. i : IsSome(make_c_string(args[j])) }

\* MpvHandle::command(args, require_result).
command ==
    /\ pc = "call"
    /\ \E args \in CommandArguments, require_result \in BOOLEAN,
          st \in CommandStatuses, garbage \in BOOLEAN :
         IF Cardinality(ConvertedArgs(args)) < Len(args)
         THEN \* CString::new(s).unwrap()
              /\ pc' = "panicked"
              /\ ret' = Call("command", Panic, FALSE, require_result, NULL)
              /\ heap' = [heap EXCEPT
                            !.allocated = { ArgPlace(i) : i \in ConvertedArgs(args) }]
              /\ decoded' = decoded
         ELSE /\ pc' = "returned"
              /\ decoded' = IF require_result /\ ~IsSome(from_mpv_error(st))
                            THEN from_mpv_node(ResultNode(st, foreign.val), ResultPlace)
                            ELSE [res |-> None, freed |-> <<>>]
              /\ ret' = Call("command",
                             IF IsSome(from_mpv_error(st))
                             THEN Err(from_mpv_error(st).val)
                             ELSE Ok(decoded'.res),
                             TRUE, require_result,
                             IF require_result
                             THEN Ptr(ResultNode(st, foreign.val)) ELSE NULL)
              /\ heap' = [allocated |->
                              { ArgPlace(i) : i \in 1 .. Len(args) }
                                  \cup { ArgvPlace }
                                  \cup (IF require_result
                                        THEN { BoxPlace(ResultPlace) }
                                               \cup ForeignBuffers(
                                                      ResultNode(st, foreign.val),
                                                      ResultPlace)
                                        ELSE {}),
                          released |->
                              decoded'.freed
                                  \o (IF require_result
                                      THEN mpv_free_node_contents(
                                             ResultNode(st, foreign.val), ResultPlace)
                                      ELSE <<>>)
                                  \o free_array(Len(args), garbage),
                          wild |-> Len(args) > 0,
                          engine_freed |->
                              IF require_result THEN { ResultPlace } ELSE {}]
    /\ UNCHANGED <<handles, engine, owned, foreign, reads, errorVars, eventVars,
                   clientVars>>

\* MpvHandle::command_node(arg, require_result).
command_node ==
    /\ pc = "call"
    /\ \E order \in KeyOrders, require_result \in BOOLEAN, st \in CommandStatuses :
         LET args == to_mpv_node(owned.val, order)
         IN  IF args = Panic
             THEN /\ pc' = "panicked"
                  /\ ret' = Call("command_node", Panic, FALSE, require_result, NULL)
                  /\ heap' = heap
                  /\ decoded' = decoded
             ELSE IF args = None
             THEN \* return Err(MpvError::CommandError)
                  /\ pc' = "returned"
                  /\ ret' = EncodeFailed("command_node", require_result)
                  /\ heap' = heap
                  /\ decoded' = decoded
             ELSE /\ pc' = "returned"
                  /\ decoded' = IF require_result /\ ~IsSome(from_mpv_error(st))
                                THEN from_mpv_node(ResultNode(st, foreign.val),
                                                   ResultPlace)
                                ELSE [res |-> None, freed |-> <<>>]
                  /\ ret' = Call("command_node",
                                 IF IsSome(from_mpv_error(st))
                                 THEN Err(from_mpv_error(st).val)
                                 ELSE Ok(decoded'.res),
                                 TRUE, require_result,
                                 IF require_result
                                 THEN Ptr(ResultNode(st, foreign.val)) ELSE NULL)
                  /\ heap' = [allocated |->
                                  { BoxPlace(ArgsPlace) }
                                      \cup ForeignBuffers(args.val, ArgsPlace)
                                      \cup (IF require_result
                                            THEN { BoxPlace(ResultPlace) }
                                                   \cup ForeignBuffers(
                                                          ResultNode(st, foreign.val),
                                                          ResultPlace)
                                            ELSE {}),
                              released |->
                                  decoded'.freed
                                      \o mpv_free_node_contents(args.val, ArgsPlace)
                                      \o (IF require_result
                                          THEN mpv_free_node_contents(
                                                 ResultNode(st, foreign.val),
                                                 ResultPlace)
                                          ELSE <<>>),
                              wild |-> FALSE,
                              engine_freed |->
                                  { ArgsPlace } \cup
                                  (IF require_result THEN { ResultPlace } ELSE {})]
    /\ UNCHANGED <<handles, engine, owned, foreign, reads, errorVars, eventVars,
                   clientVars>>

\* The file names handed to load_config_file, as the bytes of the path: a
\* plain one, one that is not valid Unicode, one with a 0 byte in it.
FileNames == { <<97>>, <<255>>, <<97, 0, 98>> }

\* The status codes mpv_load_config_file returns.
LoadConfigStatuses ==
    { mpv_error_MPV_ERROR_SUCCESS, mpv_error_MPV_ERROR_INVALID_PARAMETER,
      mpv_error_MPV_ERROR_OPTION_ERROR }

PathPlace == <<"path">>

\* Path::to_str: the path as text, None when it is not valid Unicode.
to_str(filename) == IF Utf8Valid(filename) THEN Some(filename) ELSE None

\* MpvHandle::load_config_file(filename): `to_str()?` returns None from the
\* function when the path is not valid Unicode, CString::new(..).unwrap()
\* panics on a 0 byte; otherwise the foreign call is made, its status
\* classified, the path released.
load_config_file ==
    /\ pc = "call"
    /\ \E filename \in FileNames, st \in LoadConfigStatuses :
         IF ~IsSome(to_str(filename))
         THEN /\ pc' = "returned"
              /\ ret' = Call("load_config_file", None, FALSE, FALSE, NULL)
              /\ heap' = heap
              /\ UNCHANGED errorVars
         ELSE IF ~IsSome(make_c_string(to_str(filename).val))
         THEN /\ pc' = "panicked"
              /\ ret' = Call("load_config_file", Panic, FALSE, FALSE, NULL)
              /\ heap' = heap
              /\ UNCHANGED errorVars
         ELSE /\ pc' = "returned"
              /\ status' = st
              /\ classified' = from_mpv_error(st)
              /\ ret' = Call("load_config_file", classified', TRUE, FALSE, NULL)
              /\ heap' = [heap EXCEPT !.allocated = { PathPlace },
                                      !.released = <<PathPlace>>]
    /\ UNCHANGED <<handles, engine, nodeVars, eventVars, clientVars>>

NextCall ==
    \/ set_option
    \/ command
    \/ command_node
    \/ load_config_file

SpecCall == InitCall /\ [][NextCall]_vars

\* C15: set_option releases the allocation of the option name exactly once
\* and the allocation of the payload exactly once on every path that
\* returns: after a foreign call that succeeded, after one that failed, and
\* on the early return taken when the Node cannot be encoded.
C15_SetOptionReleases ==
    (pc = "returned" /\ ret.op = "set_option") =>
        \A a \in { NamePlace, DataPlace } \cap heap.allocated :
            TimesReleased(a, heap.released) = 1

\* C16: for command and command_node called with require_result = true,
\* every buffer of the result node the engine filled in is released exactly
\* once, decode and mpv_free_node_contents taken together, when the command
\* succeeded and when it failed.
C16_ResultReleasedOnce ==
    (pc = "returned" /\ ret.op \in { "command", "command_node" }
        /\ ret.called /\ ret.require_result) =>
        \A b \in ForeignBuffers(Deref(ret.result), ResultPlace) :
            TimesReleased(b, heap.released) = 1

\* The Nodes to_mpv_node turns into None.
EncodesToNone(n) == \A order \in KeyOrders : to_mpv_node(n, order) = None

\* C23: a Node that cannot be encoded never leads to silent success: when
\* to_mpv_node yields None, set_option returns Some(OptionError) and
\* command_node returns Err(CommandError), and the foreign set-option or
\* command function is not called at all.
C23_EncodeFailureIsError ==
    (pc # "call" /\ ret.op \in { "set_option", "command_node" }
        /\ EncodesToNone(owned.val)) =>
        /\ ~ret.called
        /\ ret.op = "command_node" => pc = "returned"
        /\ pc = "returned" =>
              ret.val = IF ret.op = "set_option"
                        THEN Some("OptionError")
                        ELSE Err("CommandError")

\* C23's case: command_node has returned for a text with a 0 byte in it.
C23_Witness ==
    /\ pc = "returned"
    /\ ret.op = "command_node"
    /\ owned.val = NodeString(<<97, 0, 98>>)
    /\ ret.val = Err("CommandError")
    /\ ~ret.called

\* C25: for command called with an argument list of any length n, by the
\* time it returns each of the n argument strings and the null-terminated
\* pointer array have been released exactly once, and free_array has read
\* only the slots 0..n of the array (nothing past the terminator).
C25_CommandArgsReleased ==
    (pc = "returned" /\ ret.op = "command") =>
        /\ \A a \in { b \in heap.allocated :
                         b = ArgvPlace \/ \E i \in 1..MaxLen : b = ArgPlace(i) } :
               TimesReleased(a, heap.released) = 1
        /\ ~heap.wild
        /\ TimesReleased(WildPlace, heap.released) = 0

\* C26: a tagged value encoded by this layer is never released through the
\* engine's release routine: in command_node the argument tree produced by
\* to_mpv_node is not passed to mpv_free_node_contents, which is applied only
\* to the value the engine filled in.
C26_ArgsNotEngineReleased ==
    (pc = "returned" /\ ret.op = "command_node" /\ ret.called) =>
        heap.engine_freed \subseteq { ResultPlace }

\* C30: load_config_file never reports success without having asked the
\* engine: whenever it returns None (no error) mpv_load_config_file was
\* called, once, and returned success; a file name that cannot be converted
\* for the foreign call yields an error, not None.
C30_NoSuccessWithoutCall ==
    (pc = "returned" /\ ret.op = "load_config_file" /\ ret.val = None) =>
        /\ ret.called
        /\ status = mpv_error_MPV_ERROR_SUCCESS
        /\ TimesReleased(PathPlace, heap.released) = 1

=============================================================================
